---- MODULE Spec2Model ----
(***************************************************************************)
(* Signet: a private append-only ledger replicated by gossip.              *)
(*                                                                         *)
(* The model follows the Go sources: core/block.go, core/chain.go,         *)
(* core/pending.go, the node orchestrator (package node), the storage      *)
(* package, the p2p package and the HTTP handlers of package server.       *)
(*                                                                         *)
(* Modelling conventions                                                   *)
(*  - SHA-256 is collision free: a hash is modelled by its pre-image, a    *)
(*    tuple.  The literal prev_hash "0" of Genesis is the tuple <<"0">>.   *)
(*  - An Ed25519 signature is the pair <<private key, message>>; the empty *)
(*    string signature is <<>>.  The public key of a private key is        *)
(*    written with the same name.                                          *)
(*  - json.Marshal of a Go struct is modelled by the record of its fields; *)
(*    a nil json.RawMessage (rendered "null") is the record Null.          *)
(*  - An instant is an integer number of ticks, TicksPerSec ticks to the   *)
(*    second, so that the sub-second part of time.Now() is visible.        *)
(*  - A nil pointer of the wire form is <<>>, a set pointer is <<value>>.  *)
(***************************************************************************)
EXTENDS Integers, Sequences, FiniteSets, TLC

(***************************************************************************)
(* Bounds                                                                  *)
(***************************************************************************)
MaxChain == 5
MaxBlocks == 2
MaxProposals == 1
MaxTicks == 0
TicksPerSec == 2

Nodes == {"A", "B"}
ForeignName == "C"
Names == Nodes \cup {ForeignName}
StartNow == TicksPerSec + 1
\* what time.Now() may return: the clocks of the nodes are not synchronised
Stamps == StartNow..(StartNow + MaxTicks)
Amounts == {10}
Titles == {"lunch"}

(***************************************************************************)
(* Time                                                                    *)
(***************************************************************************)
Unix(t) == t \div TicksPerSec

FromUnix(s) == s * TicksPerSec

RFC3339(t) == t \div TicksPerSec

UnixNano(t) == t

ZeroTime == 0 - TicksPerSec

(***************************************************************************)
(* Signatures                                                              *)
(***************************************************************************)
NoSig == <<>>

Sign(privKey, data) == <<privKey, data>>

Verify(pubKey, data, sig) == Len(sig) = 2 /\ sig[1] = pubKey /\ sig[2] = data

PubHex(privKey) == privKey

ValidHexKeys == Names

HexToPublicKey(s) == IF s \in ValidHexKeys THEN <<s>> ELSE <<>>

(***************************************************************************)
(* Block model (core/block.go)                                             *)
(***************************************************************************)
\* Payload.Data that is a nil json.RawMessage
Null == [null |-> TRUE]

\* Payload.Data that holds the four bytes null: what json.Unmarshal leaves in
\* a json.RawMessage when the document says "data":null
NullText == [null |-> FALSE]

ZeroHash == <<"0">>

NoHash == <<>>

ValidTypes == {"transaction", "add_node"}

TransactionData(from, to, amount, title) ==
    [from |-> from, to |-> to, amount |-> amount, title |-> title]

AddNodeData(publicKey, nodeName, nickName, address) ==
    [public_key |-> publicKey, node_name |-> nodeName,
     nick_name |-> nickName, address |-> address]

TxFields == {"from", "to", "amount", "title"}

AddNodeFields == {"public_key", "node_name", "nick_name", "address"}

BlockPayload(type, data, fromSig, toSig) ==
    [Type |-> type, Data |-> data, FromSignature |-> fromSig, ToSignature |-> toSig]

MkBlock(index, createdAt, prevHash, hash, payload) ==
    [Header |-> [Index |-> index, CreatedAt |-> createdAt,
                 PrevHash |-> prevHash, Hash |-> hash],
     Payload |-> payload]

\* json.Marshal of a payload: a nil Data and a Data of the bytes null are
\* both written as null
PayloadJSON(payload) == [payload EXCEPT !.Data = IF @ = NullText THEN Null ELSE @]

CalcBlockHash(b) ==
    <<b.Header.Index, RFC3339(b.Header.CreatedAt), b.Header.PrevHash, PayloadJSON(b.Payload)>>

NewBlock(index, prevHash, payload, t) ==
    LET blk == MkBlock(index, t, prevHash, NoHash, payload)
    IN  [blk EXCEPT !.Header.Hash = CalcBlockHash(blk)]

NewGenesisBlock(addNode) ==
    LET blk == MkBlock(0, ZeroTime, ZeroHash, NoHash,
                       BlockPayload("add_node", addNode, NoSig, NoSig))
    IN  [blk EXCEPT !.Header.Hash = CalcBlockHash(blk)]

GenesisNodeData == AddNodeData("", "genesis", "Signet Network", "")

Genesis == NewGenesisBlock(GenesisNodeData)

\* the payload type is not looked at
ValidateBlockAnyType(b) ==
    IF CalcBlockHash(b) # b.Header.Hash THEN "invalid_hash"
    ELSE "ok"

ValidateBlock(b) ==
    IF CalcBlockHash(b) # b.Header.Hash THEN "invalid_hash"
    ELSE IF b.Payload.Type \notin ValidTypes THEN "invalid_type"
    ELSE "ok"

IsGenesisBlock(b) == b.Header.Index = 0 /\ b.Header.PrevHash = ZeroHash

\* json.Unmarshal into TransactionData: unknown keys are ignored, missing
\* keys keep the zero value, as they all do when the input is null; empty
\* input is an error.
GetTransactionData(payload) ==
    IF payload.Type # "transaction" THEN [err |-> TRUE, data |-> Null]
    ELSE IF payload.Data = Null THEN [err |-> TRUE, data |-> Null]
    ELSE IF DOMAIN payload.Data = TxFields THEN [err |-> FALSE, data |-> payload.Data]
    ELSE [err |-> FALSE, data |-> TransactionData("", "", 0, "")]

GetAddNodeData(payload) ==
    IF payload.Type # "add_node" THEN [err |-> TRUE, data |-> Null]
    ELSE IF payload.Data = Null THEN [err |-> TRUE, data |-> Null]
    ELSE IF DOMAIN payload.Data = AddNodeFields THEN [err |-> FALSE, data |-> payload.Data]
    ELSE [err |-> FALSE, data |-> AddNodeData("", "", "", "")]

CreateBlockWithTransaction(index, prevHash, tx, fromSig, toSig, t) ==
    NewBlock(index, prevHash, BlockPayload("transaction", tx, fromSig, toSig), t)

CreateBlockWithAddNode(index, prevHash, addNode, t) ==
    NewBlock(index, prevHash, BlockPayload("add_node", addNode, NoSig, NoSig), t)

(***************************************************************************)
(* Chain (core/chain.go): the pair blocks, hashSet                         *)
(***************************************************************************)
Last(s) == s[Len(s)]

HashesOf(blocks) == {blocks[i].Header.Hash : i \in 1..Len(blocks)}

\* the index of the block is not compared with the tail's
AddBlockAnyIndex(blocks, hs, b) ==
    IF ValidateBlock(b) # "ok" THEN "validation"
    ELSE IF Len(blocks) > 0 /\ b.Header.PrevHash # Last(blocks).Header.Hash THEN "prev_hash"
    ELSE IF b.Header.Hash \in hs THEN "duplicate"
    ELSE "ok"

\* The error AddBlock returns, "ok" when it appends.
AddBlock(blocks, hs, b) ==
    IF ValidateBlock(b) # "ok" THEN "validation"
    ELSE IF Len(blocks) > 0 /\ b.Header.PrevHash # Last(blocks).Header.Hash THEN "prev_hash"
    ELSE IF Len(blocks) > 0 /\ b.Header.Index # Last(blocks).Header.Index + 1 THEN "index"
    ELSE IF b.Header.Hash \in hs THEN "duplicate"
    ELSE "ok"

GetLastHash(blocks) == IF Len(blocks) = 0 THEN NoHash ELSE Last(blocks).Header.Hash

GetLastIndex(blocks) == IF Len(blocks) = 0 THEN -1 ELSE Last(blocks).Header.Index

HasBlock(hs, hash) == hash \in hs

\* ValidateChain: "ok" or the first failure.
ValidateChain(blocks) ==
    IF Len(blocks) = 0 THEN "empty"
    ELSE IF ~IsGenesisBlock(blocks[1]) THEN "no_genesis"
    ELSE IF \E i \in 2..Len(blocks) :
               \/ ValidateBlock(blocks[i]) # "ok"
               \/ blocks[i].Header.PrevHash # blocks[i-1].Header.Hash
               \/ blocks[i].Header.Index # blocks[i-1].Header.Index + 1
         THEN "invalid"
    ELSE "ok"

\* The error ReplaceChain returns, "ok" when it replaces.
ReplaceChain(blocks, new) ==
    IF Len(new) = 0 THEN "empty"
    ELSE IF Len(new) <= Len(blocks) THEN "not_longer"
    ELSE IF \E i \in 1..Len(new) :
               \/ ValidateBlock(new[i]) # "ok"
               \/ \E j \in 1..(i-1) : new[j].Header.Hash = new[i].Header.Hash
         THEN "invalid_or_duplicate"
    ELSE IF ~IsGenesisBlock(new[1]) THEN "no_genesis"
    ELSE IF \E i \in 2..Len(new) :
               \/ new[i].Header.PrevHash # new[i-1].Header.Hash
               \/ new[i].Header.Index # new[i-1].Header.Index + 1
         THEN "broken"
    ELSE "ok"

(***************************************************************************)
(* Wire form (server.Block) and the conversions of package node            *)
(***************************************************************************)
\* created_at is sent in ticks of the clock instead of seconds
convertBlockToServerInTicks(b) ==
    LET tx == GetTransactionData(b.Payload)
        an == GetAddNodeData(b.Payload)
    IN  [Header |-> [Index |-> b.Header.Index, CreatedAt |-> UnixNano(b.Header.CreatedAt),
                     PrevHash |-> b.Header.PrevHash, Hash |-> b.Header.Hash],
         Payload |-> [Type |-> b.Payload.Type,
                      Transaction |-> IF b.Payload.Type = "transaction" /\ ~tx.err
                                      THEN <<tx.data>> ELSE <<>>,
                      AddNode |-> IF b.Payload.Type = "add_node" /\ ~an.err
                                  THEN <<an.data>> ELSE <<>>,
                      FromSignature |-> b.Payload.FromSignature,
                      ToSignature |-> b.Payload.ToSignature]]

convertBlockToServer(b) ==
    LET tx == GetTransactionData(b.Payload)
        an == GetAddNodeData(b.Payload)
    IN  [Header |-> [Index |-> b.Header.Index, CreatedAt |-> Unix(b.Header.CreatedAt),
                     PrevHash |-> b.Header.PrevHash, Hash |-> b.Header.Hash],
         Payload |-> [Type |-> b.Payload.Type,
                      Transaction |-> IF b.Payload.Type = "transaction" /\ ~tx.err
                                      THEN <<tx.data>> ELSE <<>>,
                      AddNode |-> IF b.Payload.Type = "add_node" /\ ~an.err
                                  THEN <<an.data>> ELSE <<>>,
                      FromSignature |-> b.Payload.FromSignature,
                      ToSignature |-> b.Payload.ToSignature]]

convertServerToBlock(w) ==
    MkBlock(w.Header.Index, FromUnix(w.Header.CreatedAt), w.Header.PrevHash, w.Header.Hash,
            BlockPayload(w.Payload.Type,
                         IF w.Payload.Transaction # <<>> THEN w.Payload.Transaction[1]
                         ELSE IF w.Payload.AddNode # <<>> THEN w.Payload.AddNode[1]
                         ELSE Null,
                         w.Payload.FromSignature, w.Payload.ToSignature))

ToWireChain(blocks) == [i \in 1..Len(blocks) |-> convertBlockToServer(blocks[i])]

FromWireChain(ws) == [i \in 1..Len(ws) |-> convertServerToBlock(ws[i])]

(***************************************************************************)
(* Block log (storage.BlockStore): one JSON object per line                *)
(***************************************************************************)
\* json.Marshal of a core.Block: created_at is the RFC 3339 text of the time
\* with its fraction of a second, the payload data is written as it is
MarshalBlock(b) ==
    [index |-> b.Header.Index,
     created_at |-> <<b.Header.CreatedAt \div TicksPerSec, b.Header.CreatedAt % TicksPerSec>>,
     prev_hash |-> b.Header.PrevHash,
     hash |-> b.Header.Hash,
     payload |-> PayloadJSON(b.Payload)]

\* json.Unmarshal of a line into a core.Block
UnmarshalBlock(l) ==
    MkBlock(l.index, l.created_at[1] * TicksPerSec + l.created_at[2], l.prev_hash, l.hash,
            [l.payload EXCEPT !.Data = IF @ = Null THEN NullText ELSE @])

\* BlockStore.Append: one more line at the end of the file
AppendLine(log, b) == Append(log, MarshalBlock(b))

\* BlockStore.ReplaceAll: the file is rewritten with the lines of blocks
ReplaceAll(blocks) == [i \in 1..Len(blocks) |-> MarshalBlock(blocks[i])]

\* BlockStore.LoadAll: the blocks of the lines, in file order
LoadAll(log) == [i \in 1..Len(log) |-> UnmarshalBlock(log[i])]

(***************************************************************************)
(* Peer directory (storage.NodeStore) and the name check of /register      *)
(***************************************************************************)
NodeInfo(name, nickName, address, publicKey) ==
    [Name |-> name, NickName |-> nickName, Address |-> address, PublicKey |-> publicKey]

\* The characters of the names the model uses.
Chars(name) ==
    CASE name = "A" -> <<"A">>
      [] name = "B" -> <<"B">>
      [] name = "C" -> <<"C">>
      [] name = "" -> <<>>
      [] name = "a/b" -> <<"a", "/", "b">>
      [] name = "a.b" -> <<"a", ".", "b">>
      [] name = "." -> <<".">>
      [] name = ".." -> <<".", ".">>
      [] name = "../evil" -> <<".", ".", "/", "e", "v", "i", "l">>
      [] name = "sub/evil" -> <<"s", "u", "b", "/", "e", "v", "i", "l">>
      [] name = "sub\\evil" -> <<"s", "u", "b", "\\", "e", "v", "i", "l">>

SafeChars == {"A", "B", "C", "a", "b", "e", "i", "l", "s", "u", "v", "_", "-", "0"}

\* regexp ^[a-zA-Z0-9_-]+$
MatchesNodeName(name) ==
    Len(Chars(name)) > 0 /\ \A i \in 1..Len(Chars(name)) : Chars(name)[i] \in SafeChars

RegNames == Names \cup {"", "a/b"}

\* the names NodeStore.Save is called with
SaveNames == RegNames \cup {"a.b", ".", "..", "../evil", "sub/evil", "sub\\evil"}

\* the elements of a path between its separators
RECURSIVE SplitPath(_)
SplitPath(cs) ==
    IF \A i \in 1..Len(cs) : cs[i] # "/" THEN <<cs>>
    ELSE LET k == CHOOSE i \in 1..Len(cs) : cs[i] = "/" /\ \A j \in 1..(i-1) : cs[j] # "/"
         IN  <<SubSeq(cs, 1, k - 1)>> \o SplitPath(SubSeq(cs, k + 1, Len(cs)))

\* filepath.Clean from the nodes directory: up levels above it, then path
RECURSIVE Clean(_, _)
Clean(elems, at) ==
    IF elems = <<>> THEN at
    ELSE LET e == Head(elems)
             next == IF e = <<>> \/ e = <<".">> THEN at
                     ELSE IF e = <<".", ".">>
                          THEN IF at.path # <<>>
                               THEN [at EXCEPT !.path = SubSeq(@, 1, Len(@) - 1)]
                               ELSE [at EXCEPT !.up = @ + 1]
                     ELSE [at EXCEPT !.path = Append(@, e)]
         IN  Clean(Tail(elems), next)

\* filepath.Join(s.dir, nodeName)
Join(nodeName) == Clean(SplitPath(Chars(nodeName)), [up |-> 0, path |-> <<>>])

\* NodeStore.Save: the file at filepath.Join(s.dir, nodeName) is written. The
\* write fails when the path is a directory (the nodes directory or one above
\* it) or lies in a directory that does not exist (the nodes directory has no
\* subdirectories); it succeeds on a file of the nodes directory, overwritten
\* if there, and on a file beside the nodes directory (escaped).
Save(dir, nodeName, info) ==
    LET at == Join(nodeName) IN
    IF at.path = <<>> \/ Len(at.path) > 1
    THEN [err |-> TRUE, dir |-> dir, escaped |-> FALSE]
    ELSE IF at.up > 0
    THEN [err |-> FALSE, dir |-> dir, escaped |-> TRUE]
    ELSE LET file == CHOOSE x \in SaveNames : Chars(x) = at.path[1]
         IN  [err |-> FALSE,
              dir |-> [x \in (DOMAIN dir) \cup {file} |-> IF x = file THEN info ELSE dir[x]],
              escaped |-> FALSE]

(***************************************************************************)
(* Node state                                                              *)
(***************************************************************************)
VARIABLES
    chain,        \* Node.Chain.blocks, per node
    hashSet,      \* Node.Chain.hashSet, per node
    blockLog,     \* block.jsonl, per node
    pool,         \* Node.PendingPool.items, per node: entries with distinct ID
    pendingFile,  \* pending_transaction.json, per node
    peers,        \* the nodes/ directory, per node: name -> NodeInfo
    net,          \* HTTP requests sent and not yet served
    ev,           \* the operation just served: its input's case and its outcome
    made,         \* what the clients have done so far: blocks made, proposals made
    run           \* the goroutines in progress and the locks they hold

vars == <<chain, hashSet, blockLog, pool, pendingFile, peers, net, ev, made, run>>

\* every handler runs from its first statement to its last before the next
\* one starts: no goroutine is in progress between two steps
NoRun == [none |-> TRUE]

PrivKey(n) == n

Init ==
    /\ chain = [n \in Nodes |-> <<Genesis>>]
    /\ hashSet = [n \in Nodes |-> {Genesis.Header.Hash}]
    /\ blockLog = [n \in Nodes |-> AppendLine(<<>>, Genesis)]
    /\ pool = [n \in Nodes |-> {}]
    /\ pendingFile = [n \in Nodes |-> {}]
    /\ peers = [n \in Nodes |-> [x \in {n} |-> NodeInfo(n, "nick", n, PubHex(PrivKey(n)))]]
    /\ net = {}
    /\ ev = [op |-> "idle"]
    /\ made = [blocks |-> 0, proposals |-> 0]
    /\ run = NoRun

(***************************************************************************)
(* What is observed of an operation                                        *)
(***************************************************************************)
\* the parts of the nodes' state the step in progress has changed
Touched ==
    {c \in {"chain", "hashSet", "blockLog", "pool", "pendingFile", "peers"} :
        CASE c = "chain" -> chain' # chain
          [] c = "hashSet" -> hashSet' # hashSet
          [] c = "blockLog" -> blockLog' # blockLog
          [] c = "pool" -> pool' # pool
          [] c = "pendingFile" -> pendingFile' # pendingFile
          [] OTHER -> peers' # peers}

\* op on node n returned result and sent the requests of sent; posted are
\* the requests the step has sent, also when an equal request of an earlier
\* step is still on the network, logged tells whether the
\* block log held the chain when the operation began, pre is the case of its
\* input, taken in the state the operation began in
Event(op, n, result, sent, pre) ==
    [op |-> op, node |-> n, result |-> result, bcast |-> sent # {}, touched |-> Touched,
     posted |-> sent, logged |-> LoadAll(blockLog[n]) = chain[n], pre |-> pre]

NoFacts == [none |-> TRUE]

Idle == [op |-> "idle"]

\* party name's signature sig of tx verifies under the key dir registers for it
SignedBy(dir, name, tx, sig) ==
    name \in DOMAIN dir /\ Verify(dir[name].PublicKey, tx, sig)

\* the case of wire block w arriving at node n
ReceiveFacts(n, w) ==
    LET b == convertServerToBlock(w)
        tx == GetTransactionData(b.Payload).data
        isTx == b.Payload.Type = "transaction"
        tail == chain[n][Len(chain[n])]
    IN  [hashOk |-> b.Header.Hash = CalcBlockHash(b),
         type |-> b.Payload.Type,
         sigEmpty |-> isTx /\ (b.Payload.FromSignature = NoSig \/ b.Payload.ToSignature = NoSig),
         partyUnknown |-> isTx /\ (tx.from \notin DOMAIN peers[n] \/ tx.to \notin DOMAIN peers[n]),
         sigWrong |-> isTx /\ \/ /\ tx.from \in DOMAIN peers[n]
                                 /\ b.Payload.FromSignature # NoSig
                                 /\ ~SignedBy(peers[n], tx.from, tx, b.Payload.FromSignature)
                              \/ /\ tx.to \in DOMAIN peers[n]
                                 /\ b.Payload.ToSignature # NoSig
                                 /\ ~SignedBy(peers[n], tx.to, tx, b.Payload.ToSignature),
         signed |-> isTx => /\ SignedBy(peers[n], tx.from, tx, b.Payload.FromSignature)
                            /\ SignedBy(peers[n], tx.to, tx, b.Payload.ToSignature),
         prevIsTail |-> b.Header.PrevHash = tail.Header.Hash,
         ahead |-> b.Header.Index > tail.Header.Index,
         held |-> \E i \in 1..Len(chain[n]) : convertBlockToServer(chain[n][i]) = w,
         \* another node committed w on the chain this node committed its own tail on
         \* (a committed block is built from a transaction or a registration, so it
         \* carries its data)
         fork |-> \E m \in Nodes \ {n} :
                     /\ Len(chain[m]) = Len(chain[n]) /\ Len(chain[n]) > 1
                     /\ chain[m][Len(chain[m])].Payload.Data \notin {Null, NullText}
                     /\ chain[n][Len(chain[n])].Payload.Data \notin {Null, NullText}
                     /\ convertBlockToServer(chain[m][Len(chain[m])]) = w
                     /\ w.Header.Hash # tail.Header.Hash
                     /\ w.Header.Index = tail.Header.Index
                     /\ w.Header.PrevHash = tail.Header.PrevHash
                     /\ w.Header.PrevHash = chain[n][Len(chain[n]) - 1].Header.Hash
                     /\ chain[m][Len(chain[m]) - 1].Header.Hash
                            = chain[n][Len(chain[n]) - 1].Header.Hash]

(***************************************************************************)
(* Signature verification of an inbound block (Node.verifyBlockSignatures) *)
(***************************************************************************)
verifyBlockSignaturesToUnverified(dir, block) ==
    IF block.Payload.Type # "transaction" THEN "ok"
    ELSE LET tx == GetTransactionData(block.Payload) IN
         IF tx.err THEN "tx_data"
         ELSE IF block.Payload.FromSignature = NoSig THEN "missing_from_sig"
         ELSE IF tx.data.from \notin DOMAIN dir THEN "unknown_from"
         ELSE IF ~Verify(dir[tx.data.from].PublicKey, tx.data, block.Payload.FromSignature)
              THEN "invalid_from_sig"
         ELSE IF block.Payload.ToSignature = NoSig THEN "missing_to_sig"
         ELSE IF tx.data.to \notin DOMAIN dir THEN "unknown_to"
         ELSE "ok"

verifyBlockSignatures(dir, block) ==
    IF block.Payload.Type # "transaction" THEN "ok"
    ELSE LET tx == GetTransactionData(block.Payload) IN
         IF tx.err THEN "tx_data"
         ELSE IF block.Payload.FromSignature = NoSig THEN "missing_from_sig"
         ELSE IF tx.data.from \notin DOMAIN dir THEN "unknown_from"
         ELSE IF HexToPublicKey(dir[tx.data.from].PublicKey) = <<>> THEN "bad_from_key"
         ELSE IF ~Verify(dir[tx.data.from].PublicKey, tx.data, block.Payload.FromSignature)
              THEN "invalid_from_sig"
         ELSE IF block.Payload.ToSignature = NoSig THEN "missing_to_sig"
         ELSE IF tx.data.to \notin DOMAIN dir THEN "unknown_to"
         ELSE IF HexToPublicKey(dir[tx.data.to].PublicKey) = <<>> THEN "bad_to_key"
         ELSE IF ~Verify(dir[tx.data.to].PublicKey, tx.data, block.Payload.ToSignature)
              THEN "invalid_to_sig"
         ELSE "ok"

SigErrors == {"tx_data", "missing_from_sig", "unknown_from", "bad_from_key", "invalid_from_sig",
              "missing_to_sig", "unknown_to", "bad_to_key", "invalid_to_sig"}

ValidationErrors == {"invalid_hash", "invalid_type"}

(***************************************************************************)
(* Gossip (Node.BroadcastBlock, p2p.BroadcastBlock)                        *)
(***************************************************************************)
BlockMsg(to, w) == [kind |-> "block", to |-> to, body |-> w]

\* a fan-out that posts to nobody: the block stays on the node that built it
BroadcastBlockNoFanout(n, dir, w) == {}

\* One POST /block per peer of the directory except self; a request to a
\* peer that is not a running node is a transport error and leaves no trace.
BroadcastBlock(n, dir, w) == {BlockMsg(p, w) : p \in ((DOMAIN dir) \ {n}) \cap Nodes}

(***************************************************************************)
(* Node.ReceiveBlock                                                       *)
(***************************************************************************)
\* the index test admits the local last index
ReceiveOutcomeSyncAtLast(n, w) ==
    LET b == convertServerToBlock(w)
        v == ValidateBlock(b)
        sg == verifyBlockSignatures(peers[n], b)
    IN
    IF v # "ok" THEN v
    ELSE IF sg # "ok" THEN sg
    ELSE IF b.Header.PrevHash = GetLastHash(chain[n])
         THEN IF AddBlock(chain[n], hashSet[n], b) = "ok" THEN "appended" ELSE "add_failed"
    ELSE IF b.Header.Index >= GetLastIndex(chain[n]) THEN "sync_needed"
    ELSE IF HasBlock(hashSet[n], b.Header.Hash) THEN "duplicate"
    ELSE "behind_or_conflicting"

\* the index test is taken one too far
ReceiveOutcomeSyncLate(n, w) ==
    LET b == convertServerToBlock(w)
        v == ValidateBlock(b)
        sg == verifyBlockSignatures(peers[n], b)
    IN
    IF v # "ok" THEN v
    ELSE IF sg # "ok" THEN sg
    ELSE IF b.Header.PrevHash = GetLastHash(chain[n])
         THEN IF AddBlock(chain[n], hashSet[n], b) = "ok" THEN "appended" ELSE "add_failed"
    ELSE IF b.Header.Index > GetLastIndex(chain[n]) + 1 THEN "sync_needed"
    ELSE IF HasBlock(hashSet[n], b.Header.Hash) THEN "duplicate"
    ELSE "behind_or_conflicting"

\* The outcome of ReceiveBlock on node n for wire block w.
ReceiveOutcome(n, w) ==
    LET b == convertServerToBlock(w)
        v == ValidateBlock(b)
        sg == verifyBlockSignatures(peers[n], b)
    IN
    IF v # "ok" THEN v
    ELSE IF sg # "ok" THEN sg
    ELSE IF b.Header.PrevHash = GetLastHash(chain[n])
         THEN IF AddBlock(chain[n], hashSet[n], b) = "ok" THEN "appended" ELSE "add_failed"
    ELSE IF b.Header.Index > GetLastIndex(chain[n]) THEN "sync_needed"
    ELSE IF HasBlock(hashSet[n], b.Header.Hash) THEN "duplicate"
    ELSE "behind_or_conflicting"

\* nil error: HTTP 200
ReceiveSuccess == {"appended", "duplicate"}

\* a block that is already held is gossiped again
ReceiveBlockGossipsDuplicate(n, w, served) ==
    LET b == convertServerToBlock(w)
        r == ReceiveOutcome(n, w)
        sent == IF r \in {"appended", "duplicate"}
                THEN BroadcastBlock(n, peers[n], convertBlockToServer(b)) ELSE {}
    IN  /\ IF r = "appended"
           THEN /\ chain' = [chain EXCEPT ![n] = Append(@, b)]
                /\ hashSet' = [hashSet EXCEPT ![n] = @ \cup {b.Header.Hash}]
                /\ blockLog' = [blockLog EXCEPT ![n] = AppendLine(@, b)]
           ELSE UNCHANGED <<chain, hashSet, blockLog>>
        /\ net' = (net \ served) \cup sent
        /\ UNCHANGED <<pool, pendingFile, peers>>
        /\ ev' = Event("receive", n, r, sent, ReceiveFacts(n, w))

\* the receiver takes the transfer of an appended block off its pending pool
ReceiveBlockSettlesPending(n, w, served) ==
    LET b == convertServerToBlock(w)
        r == ReceiveOutcome(n, w)
        sent == IF r = "appended"
                THEN BroadcastBlock(n, peers[n], convertBlockToServer(b)) ELSE {}
        left == {x \in pool[n] : x.Payload.Data # b.Payload.Data}
    IN  /\ IF r = "appended"
           THEN /\ chain' = [chain EXCEPT ![n] = Append(@, b)]
                /\ hashSet' = [hashSet EXCEPT ![n] = @ \cup {b.Header.Hash}]
                /\ blockLog' = [blockLog EXCEPT ![n] = AppendLine(@, b)]
                /\ pool' = [pool EXCEPT ![n] = left]
                /\ pendingFile' = [pendingFile EXCEPT ![n] = left]
           ELSE UNCHANGED <<chain, hashSet, blockLog, pool, pendingFile>>
        /\ net' = (net \ served) \cup sent
        /\ UNCHANGED peers
        /\ ev' = Event("receive", n, r, sent, ReceiveFacts(n, w))

ReceiveBlock(n, w, served) ==
    LET b == convertServerToBlock(w)
        r == ReceiveOutcome(n, w)
        sent == IF r = "appended"
                THEN BroadcastBlock(n, peers[n], convertBlockToServer(b)) ELSE {}
    IN  /\ IF r = "appended"
           THEN /\ chain' = [chain EXCEPT ![n] = Append(@, b)]
                /\ hashSet' = [hashSet EXCEPT ![n] = @ \cup {b.Header.Hash}]
                /\ blockLog' = [blockLog EXCEPT ![n] = AppendLine(@, b)]
           ELSE UNCHANGED <<chain, hashSet, blockLog>>
        /\ net' = (net \ served) \cup sent
        /\ UNCHANGED <<pool, pendingFile, peers>>
        /\ ev' = Event("receive", n, r, sent, ReceiveFacts(n, w))

(***************************************************************************)
(* Pending pool (core/pending.go) and Node.ProposeTransaction              *)
(***************************************************************************)
GenerateID(payload, t) == <<UnixNano(t), payload.Type, payload.Data>>

NewPendingTransaction(id, payload, t) == [ID |-> id, CreatedAt |-> t, Payload |-> payload]

\* an entry whose id is pending already is dropped
AddKeepsFirst(items, pt) == IF \E x \in items : x.ID = pt.ID THEN items ELSE items \cup {pt}

Add(items, pt) == {x \in items : x.ID # pt.ID} \cup {pt}

Remove(items, id) == {x \in items : x.ID # id}

Get(items, id) == {x \in items : x.ID = id}

ProposeMsg(to, tx, sig) == [kind |-> "propose", to |-> to, body |-> [tx |-> tx, sig |-> sig]]

\* the case of a proposal of tx arriving at node n with fromSignature
ProposeFacts(n, tx, fromSignature, now) ==
    [tx |-> tx,
     supplied |-> fromSignature,
     id |-> GenerateID(BlockPayload("transaction", tx, NoSig, NoSig), now),
     now |-> now,
     pool |-> pool[n],
     blocks |-> chain[n]]

\* the proposal is stored as it came: it is not signed when it comes unsigned
ProposeTransactionAsSupplied(n, tx, fromSignature, served, now) ==
    LET sig == fromSignature
        payload == BlockPayload("transaction", tx, sig, NoSig)
        pt == NewPendingTransaction(GenerateID(payload, now), payload, now)
        fwd == IF tx.to # n /\ tx.to \in DOMAIN peers[n] /\ tx.to \in Nodes
               THEN {ProposeMsg(tx.to, tx, sig)} ELSE {}
    IN  /\ pool' = [pool EXCEPT ![n] = Add(@, pt)]
        /\ pendingFile' = [pendingFile EXCEPT ![n] = Add(pool[n], pt)]
        /\ net' = (net \ served) \cup fwd
        /\ UNCHANGED <<chain, hashSet, blockLog, peers>>
        /\ ev' = Event("propose", n, "ok", fwd, ProposeFacts(n, tx, fromSignature, now))

\* the forward leaves the signature out
ProposeTransactionForwardsUnsigned(n, tx, fromSignature, served, now) ==
    LET sig == IF fromSignature = NoSig THEN Sign(PrivKey(n), tx) ELSE fromSignature
        payload == BlockPayload("transaction", tx, sig, NoSig)
        pt == NewPendingTransaction(GenerateID(payload, now), payload, now)
        fwd == IF tx.to # n /\ tx.to \in DOMAIN peers[n] /\ tx.to \in Nodes
               THEN {ProposeMsg(tx.to, tx, NoSig)} ELSE {}
    IN  /\ pool' = [pool EXCEPT ![n] = Add(@, pt)]
        /\ pendingFile' = [pendingFile EXCEPT ![n] = Add(pool[n], pt)]
        /\ net' = (net \ served) \cup fwd
        /\ UNCHANGED <<chain, hashSet, blockLog, peers>>
        /\ ev' = Event("propose", n, "ok", fwd, ProposeFacts(n, tx, fromSignature, now))

\* ProposeTransaction on node n; served is the request it answers, if it
\* came from a peer.
ProposeTransaction(n, tx, fromSignature, served, now) ==
    LET sig == IF fromSignature = NoSig THEN Sign(PrivKey(n), tx) ELSE fromSignature
        payload == BlockPayload("transaction", tx, sig, NoSig)
        pt == NewPendingTransaction(GenerateID(payload, now), payload, now)
        fwd == IF tx.to # n /\ tx.to \in DOMAIN peers[n] /\ tx.to \in Nodes
               THEN {ProposeMsg(tx.to, tx, sig)} ELSE {}
    IN  /\ pool' = [pool EXCEPT ![n] = Add(@, pt)]
        /\ pendingFile' = [pendingFile EXCEPT ![n] = Add(pool[n], pt)]
        /\ net' = (net \ served) \cup fwd
        /\ UNCHANGED <<chain, hashSet, blockLog, peers>>
        /\ ev' = Event("propose", n, "ok", fwd, ProposeFacts(n, tx, fromSignature, now))

\* POST /transaction/propose from a client, while fewer than limit were made
ProposeWithin(n, limit) ==
    /\ ev = Idle
    /\ UNCHANGED run
    /\ made.proposals < limit
    /\ made' = [made EXCEPT !.proposals = @ + 1]
    /\ \E from \in Nodes, to \in Nodes, amount \in Amounts, title \in Titles :
         /\ from # to
         /\ \E fromSignature \in {NoSig, Sign(PrivKey(from), TransactionData(from, to, amount, title))} :
               \E now \in Stamps :
                   ProposeTransaction(n, TransactionData(from, to, amount, title), fromSignature, {}, now)

Propose(n) == ProposeWithin(n, MaxProposals)

\* POST /transaction/propose forwarded by the proposer (sendProposeTransaction)
DeliverPropose(n) ==
    /\ ev = Idle
    /\ UNCHANGED run
    /\ UNCHANGED made
    /\ \E m \in net :
         /\ m.kind = "propose" /\ m.to = n
         /\ \E now \in Stamps : ProposeTransaction(n, m.body.tx, m.body.sig, {m}, now)

(***************************************************************************)
(* Node.ApproveTransaction + handleApprove, Node.RejectTransaction         *)
(***************************************************************************)
BogusID == <<0, "transaction", Null>>

\* the ids of the entries whose approval made a transaction block of blocks
SpentIDs(blocks) ==
    {GenerateID(BlockPayload("transaction", blocks[i].Payload.Data,
                             blocks[i].Payload.FromSignature, NoSig), t) :
        i \in {j \in 1..Len(blocks) : blocks[j].Payload.Type = "transaction"}, t \in Stamps}

\* the ids a client may send: those pending here, those it was given before
\* and one that was never given
IdInputs(n) == {x.ID : x \in pool[n]} \cup SpentIDs(chain[n]) \cup {BogusID}

\* the case of id for an approve or a reject on node n
PendingFacts(n, id) ==
    [id |-> id,
     entry |-> Get(pool[n], id),
     spent |-> id \in SpentIDs(chain[n]),
     pool |-> pool[n],
     blocks |-> chain[n],
     log |-> blockLog[n]]

\* the entry stays in the pool
ApproveTransactionKeepsEntry(n, id, now) ==
    IF Get(pool[n], id) = {}
    THEN /\ UNCHANGED <<chain, hashSet, blockLog, pool, pendingFile, peers, net>>
         /\ ev' = Event("approve", n, "not_found", {}, PendingFacts(n, id))
    ELSE LET pendingTx == CHOOSE x \in Get(pool[n], id) : TRUE
             txData == GetTransactionData(pendingTx.Payload).data
             toSignature == Sign(PrivKey(n), txData)
             block == CreateBlockWithTransaction(GetLastIndex(chain[n]) + 1, GetLastHash(chain[n]),
                                                 txData, pendingTx.Payload.FromSignature,
                                                 toSignature, now)
             sent == BroadcastBlock(n, peers[n], convertBlockToServer(block))
         IN  IF AddBlock(chain[n], hashSet[n], block) = "ok"
             THEN /\ chain' = [chain EXCEPT ![n] = Append(@, block)]
                  /\ hashSet' = [hashSet EXCEPT ![n] = @ \cup {block.Header.Hash}]
                  /\ blockLog' = [blockLog EXCEPT ![n] = AppendLine(@, block)]
                  /\ net' = net \cup sent
                  /\ UNCHANGED <<pool, pendingFile, peers>>
                  /\ ev' = Event("approve", n, "ok", sent, PendingFacts(n, id))
             ELSE /\ UNCHANGED <<chain, hashSet, blockLog, pool, pendingFile, peers, net>>
                  /\ ev' = Event("approve", n, "add_failed", {}, PendingFacts(n, id))

ApproveTransaction(n, id, now) ==
    IF Get(pool[n], id) = {}
    THEN /\ UNCHANGED <<chain, hashSet, blockLog, pool, pendingFile, peers, net>>
         /\ ev' = Event("approve", n, "not_found", {}, PendingFacts(n, id))
    ELSE LET pendingTx == CHOOSE x \in Get(pool[n], id) : TRUE
             txData == GetTransactionData(pendingTx.Payload).data
             toSignature == Sign(PrivKey(n), txData)
             block == CreateBlockWithTransaction(GetLastIndex(chain[n]) + 1, GetLastHash(chain[n]),
                                                 txData, pendingTx.Payload.FromSignature,
                                                 toSignature, now)
             sent == BroadcastBlock(n, peers[n], convertBlockToServer(block))
         IN  IF AddBlock(chain[n], hashSet[n], block) = "ok"
             THEN /\ chain' = [chain EXCEPT ![n] = Append(@, block)]
                  /\ hashSet' = [hashSet EXCEPT ![n] = @ \cup {block.Header.Hash}]
                  /\ blockLog' = [blockLog EXCEPT ![n] = AppendLine(@, block)]
                  /\ pool' = [pool EXCEPT ![n] = Remove(@, id)]
                  /\ pendingFile' = [pendingFile EXCEPT ![n] = Remove(pool[n], id)]
                  /\ net' = net \cup sent
                  /\ UNCHANGED peers
                  /\ ev' = Event("approve", n, "ok", sent, PendingFacts(n, id))
             ELSE /\ UNCHANGED <<chain, hashSet, blockLog, pool, pendingFile, peers, net>>
                  /\ ev' = Event("approve", n, "add_failed", {}, PendingFacts(n, id))

\* a client makes a block only while the bounds allow one more
MayMake(n) == made.blocks < MaxBlocks /\ Len(chain[n]) < MaxChain

Made == [made EXCEPT !.blocks = @ + 1]

\* POST /transaction/approve
Approve(n) ==
    /\ ev = Idle
    /\ UNCHANGED run
    /\ \E id \in IdInputs(n) :
        /\ Get(pool[n], id) # {} => MayMake(n)
        /\ made' = IF Get(pool[n], id) # {} THEN Made ELSE made
        /\ \E now \in Stamps : ApproveTransaction(n, id, now)

\* an id that is not pending is answered as a success
RejectTransactionLenient(n, id) ==
    /\ IF Get(pool[n], id) = {}
       THEN UNCHANGED <<pool, pendingFile>>
       ELSE /\ pool' = [pool EXCEPT ![n] = Remove(@, id)]
            /\ pendingFile' = [pendingFile EXCEPT ![n] = Remove(pool[n], id)]
    /\ UNCHANGED <<chain, hashSet, blockLog, peers, net>>
    /\ ev' = Event("reject", n, "ok", {}, PendingFacts(n, id))

\* every entry leaves the pool
RejectTransactionClearsPool(n, id) ==
    /\ IF Get(pool[n], id) = {}
       THEN UNCHANGED <<pool, pendingFile>>
       ELSE /\ pool' = [pool EXCEPT ![n] = {}]
            /\ pendingFile' = [pendingFile EXCEPT ![n] = {}]
    /\ UNCHANGED <<chain, hashSet, blockLog, peers, net>>
    /\ ev' = Event("reject", n, IF Get(pool[n], id) = {} THEN "not_found" ELSE "ok", {},
                   PendingFacts(n, id))

RejectTransaction(n, id) ==
    /\ IF Get(pool[n], id) = {}
       THEN UNCHANGED <<pool, pendingFile>>
       ELSE /\ pool' = [pool EXCEPT ![n] = Remove(@, id)]
            /\ pendingFile' = [pendingFile EXCEPT ![n] = Remove(pool[n], id)]
    /\ UNCHANGED <<chain, hashSet, blockLog, peers, net>>
    /\ ev' = Event("reject", n, IF Get(pool[n], id) = {} THEN "not_found" ELSE "ok", {},
                   PendingFacts(n, id))

\* POST /transaction/reject
Reject(n) ==
    /\ ev = Idle
    /\ UNCHANGED run
    /\ UNCHANGED made
    /\ \E id \in IdInputs(n) : RejectTransaction(n, id)

(***************************************************************************)
(* handleRegister + Node.RegisterNode                                      *)
(***************************************************************************)
\* the case of a registration arriving at node n
RegisterFacts(n, nodeName, nickName, address, publicKey) ==
    [name |-> nodeName, nick |-> nickName, address |-> address, key |-> publicKey,
     safe |-> MatchesNodeName(nodeName),
     complete |-> nickName # "" /\ address # "" /\ publicKey # "",
     blocks |-> chain[n], log |-> blockLog[n], dir |-> peers[n]]

\* the block goes to the peers the directory held before the registration
RegisterNodeBroadcastFirst(n, nodeName, nickName, address, publicKey, now) ==
    LET block == CreateBlockWithAddNode(GetLastIndex(chain[n]) + 1, GetLastHash(chain[n]),
                                        AddNodeData(publicKey, nodeName, nickName, address), now)
        dir == Save(peers[n], nodeName, NodeInfo(nodeName, nickName, address, publicKey)).dir
        sent == BroadcastBlock(n, peers[n], convertBlockToServer(block))
        f == RegisterFacts(n, nodeName, nickName, address, publicKey)
    IN  IF AddBlock(chain[n], hashSet[n], block) = "ok"
        THEN /\ chain' = [chain EXCEPT ![n] = Append(@, block)]
             /\ hashSet' = [hashSet EXCEPT ![n] = @ \cup {block.Header.Hash}]
             /\ blockLog' = [blockLog EXCEPT ![n] = AppendLine(@, block)]
             /\ peers' = [peers EXCEPT ![n] = dir]
             /\ net' = net \cup sent
             /\ UNCHANGED <<pool, pendingFile>>
             /\ ev' = Event("register", n, "ok", sent, f)
        ELSE /\ UNCHANGED <<chain, hashSet, blockLog, pool, pendingFile, peers, net>>
             /\ ev' = Event("register", n, "add_failed", {}, f)

RegisterNode(n, nodeName, nickName, address, publicKey, now) ==
    LET block == CreateBlockWithAddNode(GetLastIndex(chain[n]) + 1, GetLastHash(chain[n]),
                                        AddNodeData(publicKey, nodeName, nickName, address), now)
        dir == Save(peers[n], nodeName, NodeInfo(nodeName, nickName, address, publicKey)).dir
        sent == BroadcastBlock(n, dir, convertBlockToServer(block))
        f == RegisterFacts(n, nodeName, nickName, address, publicKey)
    IN  IF AddBlock(chain[n], hashSet[n], block) = "ok"
        THEN /\ chain' = [chain EXCEPT ![n] = Append(@, block)]
             /\ hashSet' = [hashSet EXCEPT ![n] = @ \cup {block.Header.Hash}]
             /\ blockLog' = [blockLog EXCEPT ![n] = AppendLine(@, block)]
             /\ peers' = [peers EXCEPT ![n] = dir]
             /\ net' = net \cup sent
             /\ UNCHANGED <<pool, pendingFile>>
             /\ ev' = Event("register", n, "ok", sent, f)
        ELSE /\ UNCHANGED <<chain, hashSet, blockLog, pool, pendingFile, peers, net>>
             /\ ev' = Event("register", n, "add_failed", {}, f)

handleRegister(n, nodeName, nickName, address, publicKey, now) ==
    IF nodeName = "" \/ ~MatchesNodeName(nodeName) \/ nickName = "" \/ address = "" \/ publicKey = ""
    THEN /\ UNCHANGED <<chain, hashSet, blockLog, pool, pendingFile, peers, net>>
         /\ ev' = Event("register", n, "bad_request", {},
                        RegisterFacts(n, nodeName, nickName, address, publicKey))
    ELSE RegisterNode(n, nodeName, nickName, address, publicKey, now)

Nicks == {"nick", ""}

\* POST /register: a peer is registered under its own name, address and key
Register(n) ==
    /\ ev = Idle
    /\ UNCHANGED run
    /\ \E name \in RegNames, nick \in Nicks :
        LET accepted == MatchesNodeName(name) /\ nick # "" IN
        /\ accepted => MayMake(n)
        /\ made' = IF accepted THEN Made ELSE made
        /\ \E now \in Stamps : handleRegister(n, name, nick, name, PubHex(name), now)

(***************************************************************************)
(* Chains a peer that is not one of Nodes may serve on GET /chain          *)
(***************************************************************************)
ForeignNodeData == AddNodeData(PubHex(ForeignName), ForeignName, "nick", ForeignName)

\* a Genesis made from node-specific data instead of the network constants
ForeignGenesis == NewGenesisBlock(ForeignNodeData)

ForeignBlock(prev, t) ==
    CreateBlockWithAddNode(prev.Header.Index + 1, prev.Header.Hash, ForeignNodeData, t)

Extend(blocks, t) == Append(blocks, ForeignBlock(Last(blocks), t))

DivergentChain == Extend(<<ForeignGenesis>>, StartNow)

ExtensionChain == Extend(<<Genesis>>, StartNow)

BadHashChain ==
    Append(ExtensionChain, [ForeignBlock(Last(ExtensionChain), StartNow) EXCEPT !.Header.Hash = <<"bad">>])

BrokenLinkChain ==
    Append(ExtensionChain, ForeignBlock(Genesis, StartNow + TicksPerSec))

ForeignChains ==
    {ToWireChain(c) : c \in {DivergentChain, Extend(DivergentChain, StartNow), ExtensionChain,
                             Extend(ExtensionChain, StartNow), BadHashChain, BrokenLinkChain}}

(***************************************************************************)
(* Node.SyncChain                                                          *)
(***************************************************************************)
\* GET /chain on a node of the model
GetChain(m) == ToWireChain(chain[m])

\* a chain in the shape sync is to adopt: a root block, valid blocks, linked
\* by prev_hash and index, no hash twice
WellFormedChain(c) ==
    /\ Len(c) > 0 /\ IsGenesisBlock(c[1])
    /\ \A i \in 1..Len(c) : ValidateBlock(c[i]) = "ok"
    /\ \A i \in 2..Len(c) : /\ c[i].Header.PrevHash = c[i-1].Header.Hash
                            /\ c[i].Header.Index = c[i-1].Header.Index + 1
    /\ \A i, j \in 1..Len(c) : c[i].Header.Hash = c[j].Header.Hash => i = j

\* long holds the blocks of short, by index and hash, and more
StrictExtension(long, short) ==
    /\ Len(long) > Len(short)
    /\ \A i \in 1..Len(short) : /\ long[i].Header.Index = short[i].Header.Index
                                /\ long[i].Header.Hash = short[i].Header.Hash

\* the case of a sync of node n that reaches the peers of reach
SyncFacts(n, reach, fc) ==
    LET fetched(p) == IF p \in Nodes THEN GetChain(p) ELSE fc
    IN  [len |-> Len(chain[n]),
         \* the reached nodes whose chain strictly extends the local one
         extenders |-> {p \in reach \cap Nodes : StrictExtension(chain[p], chain[n])},
         \* the reached peer whose chain is longer than every other fetched chain
         longest |-> {p \in reach : \A q \in reach \ {p} : Len(fetched(q)) < Len(fetched(p))},
         \* some reached peer serves a well-formed chain longer than the local one
         validLonger |-> \E p \in reach : /\ Len(fetched(p)) > Len(chain[n])
                                          /\ WellFormedChain(FromWireChain(fetched(p))),
         \* some known peer does not answer
         unreached |-> reach # (DOMAIN peers[n]) \ {n},
         \* some reached peer serves a longer chain that is not well-formed
         invalidLonger |-> \E p \in reach : /\ Len(fetched(p)) > Len(chain[n])
                                            /\ ~WellFormedChain(FromWireChain(fetched(p)))]

\* the candidate is the first chain fetched that is longer than the local
\* chain, whatever is fetched after it
SyncChainFirstLonger(n, reach, fc) ==
    LET fetched(p) == IF p \in Nodes THEN GetChain(p) ELSE fc
        cands == {p \in reach : Len(fetched(p)) > Len(chain[n])}
    IN  /\ UNCHANGED <<pool, pendingFile, peers, net>>
        /\ IF cands = {}
           THEN /\ UNCHANGED <<chain, hashSet, blockLog>>
                /\ ev' = Event("sync", n, "nothing_longer", {}, SyncFacts(n, reach, fc))
           ELSE \E p \in cands :
                   LET longestBlocks == FromWireChain(fetched(p))
                       r == ReplaceChain(chain[n], longestBlocks)
                   IN  /\ IF r = "ok"
                          THEN /\ chain' = [chain EXCEPT ![n] = longestBlocks]
                               /\ hashSet' = [hashSet EXCEPT ![n] = HashesOf(longestBlocks)]
                               /\ blockLog' = [blockLog EXCEPT ![n] = ReplaceAll(longestBlocks)]
                          ELSE UNCHANGED <<chain, hashSet, blockLog>>
                       /\ ev' = Event("sync", n, r, {}, SyncFacts(n, reach, fc))

\* a fetched chain is a candidate only when it is longer by two blocks or more
SyncChainLongerByTwo(n, reach, fc) ==
    LET fetched(p) == IF p \in Nodes THEN GetChain(p) ELSE fc
        cands == {p \in reach : /\ Len(fetched(p)) > Len(chain[n]) + 1
                                /\ \A q \in reach : Len(fetched(q)) <= Len(fetched(p))}
    IN  /\ UNCHANGED <<pool, pendingFile, peers, net>>
        /\ IF cands = {}
           THEN /\ UNCHANGED <<chain, hashSet, blockLog>>
                /\ ev' = Event("sync", n, "nothing_longer", {}, SyncFacts(n, reach, fc))
           ELSE \E p \in cands :
                   LET longestBlocks == FromWireChain(fetched(p))
                       r == ReplaceChain(chain[n], longestBlocks)
                   IN  /\ IF r = "ok"
                          THEN /\ chain' = [chain EXCEPT ![n] = longestBlocks]
                               /\ hashSet' = [hashSet EXCEPT ![n] = HashesOf(longestBlocks)]
                               /\ blockLog' = [blockLog EXCEPT ![n] = ReplaceAll(longestBlocks)]
                          ELSE UNCHANGED <<chain, hashSet, blockLog>>
                       /\ ev' = Event("sync", n, r, {}, SyncFacts(n, reach, fc))

\* reach: the peers whose GET /chain answers; fc: what a foreign peer serves.
\* The peers are visited in map order, a chain replaces the candidate when it
\* is strictly longer: the candidate is any fetched chain of maximal length
\* that is longer than the local chain.
SyncChain(n, reach, fc) ==
    LET fetched(p) == IF p \in Nodes THEN GetChain(p) ELSE fc
        cands == {p \in reach : /\ Len(fetched(p)) > Len(chain[n])
                                /\ \A q \in reach : Len(fetched(q)) <= Len(fetched(p))}
    IN  /\ UNCHANGED <<pool, pendingFile, peers, net>>
        /\ IF cands = {}
           THEN /\ UNCHANGED <<chain, hashSet, blockLog>>
                /\ ev' = Event("sync", n, "nothing_longer", {}, SyncFacts(n, reach, fc))
           ELSE \E p \in cands :
                   LET longestBlocks == FromWireChain(fetched(p))
                       r == ReplaceChain(chain[n], longestBlocks)
                   IN  /\ IF r = "ok"
                          THEN /\ chain' = [chain EXCEPT ![n] = longestBlocks]
                               /\ hashSet' = [hashSet EXCEPT ![n] = HashesOf(longestBlocks)]
                               /\ blockLog' = [blockLog EXCEPT ![n] = ReplaceAll(longestBlocks)]
                          ELSE UNCHANGED <<chain, hashSet, blockLog>>
                       /\ ev' = Event("sync", n, r, {}, SyncFacts(n, reach, fc))

\* a sync of node n when the foreign peer serves one of served
SyncFrom(n, served) ==
    /\ ev = Idle
    /\ UNCHANGED run
    /\ UNCHANGED made
    /\ \E reach \in SUBSET ((DOMAIN peers[n]) \ {n}) :
         \E fc \in (IF ForeignName \in reach THEN served ELSE {<<>>}) :
             SyncChain(n, reach, fc)

Sync(n) == SyncFrom(n, ForeignChains)

(***************************************************************************)
(* Node start (cmd.RunStart): NewNode, then p2p.SyncChain                  *)
(***************************************************************************)
\* p2p.fetchChain decodes the body into core blocks: created_at has to be a
\* JSON string holding a time, as json.Marshal of a core.Block writes it; the
\* number of a server.Block is an error
p2pFetchChain(body) ==
    IF \A i \in 1..Len(body) : "created_at" \in DOMAIN body[i]
    THEN [err |-> FALSE, blocks |-> LoadAll(body)]
    ELSE [err |-> TRUE, blocks |-> <<>>]

\* what the foreign peer may answer a starting node: chains written as core
\* blocks, and a chain written as GET /chain of a node writes it
StartBodies ==
    {ReplaceAll(c) : c \in {ExtensionChain, Extend(ExtensionChain, StartNow), BadHashChain}}
    \cup {ToWireChain(Extend(ExtensionChain, StartNow))}

\* core.NewChainFromBlocks: the blocks as they are, an error when there is
\* none or when the first is not a genesis block
NewChainFromBlocks(blocks) ==
    IF Len(blocks) = 0 THEN [err |-> TRUE, blocks |-> <<>>]
    ELSE IF ~IsGenesisBlock(blocks[1]) THEN [err |-> TRUE, blocks |-> <<>>]
    ELSE [err |-> FALSE, blocks |-> blocks]

\* a fresh chain to which the blocks after the first are added one by one, a
\* block that AddBlock refuses being left out
RECURSIVE Replay(_, _)
Replay(done, rest) ==
    IF Len(rest) = 0 THEN done
    ELSE Replay(IF AddBlock(done, HashesOf(done), Head(rest)) = "ok"
                THEN Append(done, Head(rest)) ELSE done,
                Tail(rest))

\* the chain is built by NewChain and AddBlock of every logged block but the
\* first
NewNodeReplay(n) ==
    LET blocks == LoadAll(blockLog[n]) IN
    [err |-> FALSE,
     blocks |-> IF Len(blocks) = 0 THEN <<Genesis>> ELSE Replay(<<Genesis>>, Tail(blocks)),
     pool |-> pendingFile[n]]

\* NewNode builds the chain from the block log (a fresh chain when the log
\* is empty) and the pool from the pending file
NewNode(n) ==
    LET blocks == LoadAll(blockLog[n])
        built == NewChainFromBlocks(blocks)
    IN  IF Len(blocks) = 0
        THEN [err |-> FALSE, blocks |-> <<Genesis>>, pool |-> pendingFile[n]]
        ELSE [err |-> built.err, blocks |-> built.blocks, pool |-> pendingFile[n]]

\* the case of a start of node n: its block log, the blocks of the log and the
\* chain NewNode makes of them
StartFacts(n) ==
    [log |-> blockLog[n],
     blocks |-> IF Len(blockLog[n]) = 0 THEN <<Genesis>> ELSE LoadAll(blockLog[n]),
     built |-> NewNode(n).blocks]

\* NewNode, then p2p.SyncChain, which fetches the chain of every peer of the
\* directory (the node itself does not serve yet) and replaces the chain by a
\* longest one it could decode. reach: the peers that answer; body: the
\* answer of the foreign peer.
RunStart(n, reach, body) ==
    LET node == NewNode(n)
        built == node.blocks
        got(p) == p2pFetchChain(IF p \in Nodes THEN GetChain(p) ELSE body)
        cands == {p \in reach :
                     /\ ~got(p).err /\ Len(got(p).blocks) > Len(built)
                     /\ \A q \in reach : ~got(q).err => Len(got(q).blocks) <= Len(got(p).blocks)}
    IN  IF node.err
        THEN /\ UNCHANGED <<chain, hashSet, blockLog, pool, pendingFile, peers, net>>
             /\ ev' = Event("start", n, "fatal", {}, StartFacts(n))
        ELSE /\ pool' = [pool EXCEPT ![n] = node.pool]
             /\ UNCHANGED <<blockLog, pendingFile, peers, net>>
             /\ IF cands = {}
                THEN /\ chain' = [chain EXCEPT ![n] = built]
                     /\ hashSet' = [hashSet EXCEPT ![n] = HashesOf(built)]
                     /\ ev' = Event("start", n, "nothing_longer", {}, StartFacts(n))
                ELSE \E p \in cands :
                        LET r == ReplaceChain(built, got(p).blocks)
                            kept == IF r = "ok" THEN got(p).blocks ELSE built
                        IN  /\ chain' = [chain EXCEPT ![n] = kept]
                            /\ hashSet' = [hashSet EXCEPT ![n] = HashesOf(kept)]
                            /\ ev' = Event("start", n, r, {}, StartFacts(n))

\* the node is stopped and started again
Start(n) ==
    /\ ev = Idle
    /\ UNCHANGED run
    /\ UNCHANGED made
    /\ \E reach \in SUBSET ((DOMAIN peers[n]) \ {n}) :
         \E body \in (IF ForeignName \in reach THEN StartBodies ELSE {<<>>}) :
             RunStart(n, reach, body)

(***************************************************************************)
(* POST /block: gossip from a peer, or any client                          *)
(***************************************************************************)
Deliver(n) ==
    /\ ev = Idle
    /\ UNCHANGED run
    /\ UNCHANGED made
    /\ \E m \in net :
        /\ m.kind = "block" /\ m.to = n
        /\ ReceiveOutcome(n, m.body) = "appended" => Len(chain[n]) < MaxChain
        /\ ReceiveBlock(n, m.body, {m})

\* the request fails in transport
Lose ==
    /\ ev = Idle
    /\ UNCHANGED run
    /\ \E m \in net : net' = net \ {m}
    /\ UNCHANGED <<chain, hashSet, blockLog, pool, pendingFile, peers, ev, made>>

Rehash(w) == [w EXCEPT !.Header.Hash = CalcBlockHash(convertServerToBlock(w))]

\* what a client can make of a block it has seen
Tampers(w) ==
    {Rehash([w EXCEPT !.Payload.Type = "bogus"]),
     Rehash([w EXCEPT !.Header.Index = @ + 1])}
    \cup
    (IF w.Payload.Transaction # <<>>
     THEN {[w EXCEPT !.Payload.Transaction[1].amount = @ + 1],
           Rehash([w EXCEPT !.Payload.FromSignature = NoSig]),
           Rehash([w EXCEPT !.Payload.ToSignature = NoSig]),
           Rehash([w EXCEPT !.Payload.FromSignature = Sign(ForeignName, w.Payload.Transaction[1])]),
           Rehash([w EXCEPT !.Payload.ToSignature = Sign(ForeignName, w.Payload.Transaction[1])])}
     ELSE IF w.Payload.AddNode # <<>>
     THEN {Rehash([w EXCEPT !.Payload.FromSignature = Sign(ForeignName, w.Payload.AddNode[1])]),
           Rehash([w EXCEPT !.Payload.AddNode = <<>>])}
     ELSE {})

SeenBlocks == UNION {{GetChain(m)[i] : i \in 1..Len(chain[m])} : m \in Nodes}

\* a client replays any block and tampers with the newest block of a chain
ClientBlocks == SeenBlocks \cup UNION {Tampers(Last(GetChain(m))) : m \in Nodes}

\* a tampered block that is accepted is a block the client has made
Inject(n) ==
    /\ ev = Idle
    /\ UNCHANGED run
    /\ \E w \in ClientBlocks :
        LET appended == ReceiveOutcome(n, w) = "appended" IN
        /\ appended => Len(chain[n]) < MaxChain
        /\ (appended /\ w \notin SeenBlocks) => MayMake(n)
        /\ made' = IF appended /\ w \notin SeenBlocks THEN Made ELSE made
        /\ ReceiveBlock(n, w, {})

(***************************************************************************)
(* Specification                                                           *)
(***************************************************************************)
\* the response of the operation just served goes out
Return ==
    /\ ev # Idle
    /\ UNCHANGED run
    /\ ev' = Idle
    /\ UNCHANGED <<chain, hashSet, blockLog, pool, pendingFile, peers, net, made>>

Next ==
    \/ \E n \in Nodes : Propose(n)
    \/ \E n \in Nodes : DeliverPropose(n)
    \/ \E n \in Nodes : Approve(n)
    \/ \E n \in Nodes : Reject(n)
    \/ \E n \in Nodes : Register(n)
    \/ \E n \in Nodes : Deliver(n)
    \/ \E n \in Nodes : Inject(n)
    \/ \E n \in Nodes : Sync(n)
    \/ \E n \in Nodes : Start(n)
    \/ Lose
    \/ Return

Spec == Init /\ [][Next]_vars

(***************************************************************************)
(* core.Chain on its own: NewChain, then AddBlock and ReplaceChain called  *)
(* with any argument. The chain under test is that of CUT; the rest of     *)
(* the state stays as Init leaves it.                                      *)
(***************************************************************************)
CUT == "A"

SampleTx == TransactionData("A", "B", 10, "lunch")

SamplePayloads ==
    {BlockPayload("add_node", ForeignNodeData, NoSig, NoSig),
     BlockPayload("transaction", SampleTx, Sign("A", SampleTx), Sign("B", SampleTx))}

\* what AddBlock may be handed: the next block, and blocks off by one field
AppendInputs(blocks) ==
    LET tail == Last(blocks)
        prevs == HashesOf(blocks) \cup {ZeroHash}
        good == {NewBlock(tail.Header.Index + 1, tail.Header.Hash, p, t) :
                    p \in SamplePayloads, t \in Stamps}
    IN  good
        \cup {[b EXCEPT !.Header.Hash = <<"bad">>] : b \in good}
        \cup {[b EXCEPT !.Payload.ToSignature = <<>>] : b \in good}
        \cup {NewBlock(b.Header.Index, b.Header.PrevHash, [b.Payload EXCEPT !.Type = "bogus"],
                       b.Header.CreatedAt) : b \in good}
        \cup {NewBlock(i, h, p, StartNow) :
                 i \in {tail.Header.Index, tail.Header.Index + 1, tail.Header.Index + 2},
                 h \in prevs, p \in SamplePayloads}
        \cup {blocks[i] : i \in 1..Len(blocks)}

\* the case of b for AddBlock on the chain blocks, hs
AppendFacts(blocks, hs, b) ==
    [hashOk |-> b.Header.Hash = CalcBlockHash(b),
     typeOk |-> b.Payload.Type \in {"transaction", "add_node"},
     prevIsTail |-> b.Header.PrevHash = blocks[Len(blocks)].Header.Hash,
     next |-> b.Header.Index = blocks[Len(blocks)].Header.Index + 1,
     fresh |-> \A i \in 1..Len(blocks) : blocks[i].Header.Hash # b.Header.Hash,
     block |-> b, blocks |-> blocks, hashSet |-> hs]

ChainAppend ==
    /\ ev = Idle
    /\ UNCHANGED run
    /\ \E b \in AppendInputs(chain[CUT]) :
         LET r == AddBlock(chain[CUT], hashSet[CUT], b) IN
         /\ r = "ok" => Len(chain[CUT]) < MaxChain
         /\ IF r = "ok"
            THEN /\ chain' = [chain EXCEPT ![CUT] = Append(@, b)]
                 /\ hashSet' = [hashSet EXCEPT ![CUT] = @ \cup {b.Header.Hash}]
            ELSE UNCHANGED <<chain, hashSet>>
         /\ UNCHANGED <<blockLog, pool, pendingFile, peers, net, made>>
         /\ ev' = Event("append", CUT, r, {}, AppendFacts(chain[CUT], hashSet[CUT], b))

SkippedIndexChain == Append(ExtensionChain, ForeignBlock(ForeignBlock(Last(ExtensionChain), StartNow), StartNow))

BogusTypeChain ==
    Append(ExtensionChain,
           NewBlock(2, Last(ExtensionChain).Header.Hash,
                    BlockPayload("bogus", ForeignNodeData, NoSig, NoSig), StartNow))

RepeatedBlockChain == Append(ExtensionChain, Last(ExtensionChain))

\* a valid run of blocks that does not begin at index 0
HeadlessChain == Tail(Extend(ExtensionChain, StartNow))

\* what ReplaceChain may be handed
ReplaceInputs(blocks) ==
    {<<>>, <<Genesis>>, <<ForeignGenesis>>, DivergentChain, Extend(DivergentChain, StartNow),
     ExtensionChain, Extend(ExtensionChain, StartNow), BadHashChain, BrokenLinkChain,
     SkippedIndexChain, BogusTypeChain, RepeatedBlockChain, HeadlessChain, blocks}
    \cup {Append(blocks, b) : b \in AppendInputs(blocks)}

\* the case of the candidate new for ReplaceChain on the chain blocks, hs
ReplaceFacts(blocks, hs, new) ==
    [longer |-> Len(new) > Len(blocks),
     startsGenesis |-> Len(new) > 0 /\ new[1] = Genesis,
     rootShaped |-> Len(new) > 0 /\ new[1].Header.Index = 0 /\ new[1].Header.PrevHash = <<"0">>,
     allValid |-> \A i \in 1..Len(new) :
                     /\ new[i].Header.Hash = CalcBlockHash(new[i])
                     /\ new[i].Payload.Type \in {"transaction", "add_node"},
     linked |-> \A i \in 2..Len(new) :
                   /\ new[i].Header.PrevHash = new[i-1].Header.Hash
                   /\ new[i].Header.Index = new[i-1].Header.Index + 1,
     distinct |-> \A i, j \in 1..Len(new) : new[i].Header.Hash = new[j].Header.Hash => i = j,
     new |-> new, blocks |-> blocks, hashSet |-> hs]

ChainReplace ==
    /\ ev = Idle
    /\ UNCHANGED run
    /\ \E new \in ReplaceInputs(chain[CUT]) :
         LET r == ReplaceChain(chain[CUT], new) IN
         /\ Len(new) <= MaxChain
         /\ IF r = "ok"
            THEN /\ chain' = [chain EXCEPT ![CUT] = new]
                 /\ hashSet' = [hashSet EXCEPT ![CUT] = HashesOf(new)]
            ELSE UNCHANGED <<chain, hashSet>>
         /\ UNCHANGED <<blockLog, pool, pendingFile, peers, net, made>>
         /\ ev' = Event("replace", CUT, r, {}, ReplaceFacts(chain[CUT], hashSet[CUT], new))

NextChain ==
    \/ ChainAppend
    \/ ChainReplace
    \/ Return

SpecChain == Init /\ [][NextChain]_vars

(***************************************************************************)
(* Sync among three peers. The run starts where A has registered B and     *)
(* then C and B has received both blocks from A: A knows two peers, and    *)
(* both nodes hold the same chain of three blocks.                         *)
(***************************************************************************)
RegisteredChain ==
    LET add(name) == AddNodeData(PubHex(name), name, "nick", name)
        b1 == CreateBlockWithAddNode(1, Genesis.Header.Hash, add("B"), StartNow)
        b2 == CreateBlockWithAddNode(2, b1.Header.Hash, add(ForeignName), StartNow)
    IN  <<Genesis, b1, b2>>

InitSync ==
    /\ chain = [n \in Nodes |-> IF n = "A" THEN RegisteredChain
                                 ELSE FromWireChain(ToWireChain(RegisteredChain))]
    /\ hashSet = [n \in Nodes |-> HashesOf(RegisteredChain)]
    /\ blockLog = [n \in Nodes |-> ReplaceAll(chain[n])]
    /\ pool = [n \in Nodes |-> {}]
    /\ pendingFile = [n \in Nodes |-> {}]
    /\ peers = [n \in Nodes |->
                  [x \in (IF n = "A" THEN Names ELSE {n}) |-> NodeInfo(x, "nick", x, PubHex(PrivKey(x)))]]
    /\ net = {}
    /\ ev = [op |-> "idle"]
    /\ made = [blocks |-> 0, proposals |-> 0]
    /\ run = NoRun

\* chains of the foreign peer that are longer than RegisteredChain
FarValidChain == Extend(Extend(ExtensionChain, StartNow), StartNow)

FarBadHashChain ==
    Append(FarValidChain, [ForeignBlock(Last(FarValidChain), StartNow) EXCEPT !.Header.Hash = <<"bad">>])

FarChains ==
    {ToWireChain(c) : c \in {ExtensionChain, FarValidChain, Extend(FarValidChain, StartNow),
                             FarBadHashChain, Append(FarValidChain, ForeignBlock(Genesis, StartNow))}}

SyncFar(n) == SyncFrom(n, FarChains)

NextSync ==
    \/ \E n \in Nodes : Register(n)
    \/ \E n \in Nodes : Deliver(n)
    \/ \E n \in Nodes : SyncFar(n)
    \/ Lose
    \/ Return

SpecSync == InitSync /\ [][NextSync]_vars

(***************************************************************************)
(* The pending pool with more than one entry. The run starts where A has   *)
(* registered B and B has received the block, and a client may make one    *)
(* proposal more than MaxProposals.                                        *)
(***************************************************************************)
InitPending ==
    /\ chain = [n \in Nodes |-> IF n = "A" THEN SubSeq(RegisteredChain, 1, 2)
                                 ELSE FromWireChain(ToWireChain(SubSeq(RegisteredChain, 1, 2)))]
    /\ hashSet = [n \in Nodes |-> HashesOf(chain[n])]
    /\ blockLog = [n \in Nodes |-> ReplaceAll(chain[n])]
    /\ pool = [n \in Nodes |-> {}]
    /\ pendingFile = [n \in Nodes |-> {}]
    /\ peers = [n \in Nodes |->
                  [x \in (IF n = "A" THEN Nodes ELSE {n}) |-> NodeInfo(x, "nick", x, PubHex(PrivKey(x)))]]
    /\ net = {}
    /\ ev = [op |-> "idle"]
    /\ made = [blocks |-> 0, proposals |-> 0]
    /\ run = NoRun

ProposeAgain(n) == ProposeWithin(n, MaxProposals + 1)

NextPending ==
    \/ \E n \in Nodes : ProposeAgain(n)
    \/ \E n \in Nodes : DeliverPropose(n)
    \/ \E n \in Nodes : Approve(n)
    \/ \E n \in Nodes : Reject(n)
    \/ \E n \in Nodes : Deliver(n)
    \/ Lose
    \/ Return

SpecPending == InitPending /\ [][NextPending]_vars

(***************************************************************************)
(* Restart. The run starts where the nodes hold RegisteredChain and are    *)
(* about to be started again over a block log that holds the chain, over   *)
(* one whose first line was cut off, or over an empty one.                 *)
(***************************************************************************)
RestartLogs(blocks) == {ReplaceAll(blocks), ReplaceAll(Tail(blocks)), <<>>}

InitRestart ==
    /\ chain = [n \in Nodes |-> IF n = "A" THEN RegisteredChain
                                 ELSE FromWireChain(ToWireChain(RegisteredChain))]
    /\ hashSet = [n \in Nodes |-> HashesOf(RegisteredChain)]
    /\ blockLog \in [Nodes -> UNION {RestartLogs(chain[n]) : n \in Nodes}]
    /\ \A n \in Nodes : blockLog[n] \in RestartLogs(chain[n])
    /\ pool = [n \in Nodes |-> {}]
    /\ pendingFile = [n \in Nodes |-> {}]
    /\ peers = [n \in Nodes |->
                  [x \in (IF n = "A" THEN Names ELSE {n}) |-> NodeInfo(x, "nick", x, PubHex(PrivKey(x)))]]
    /\ net = {}
    /\ ev = [op |-> "idle"]
    /\ made = [blocks |-> 0, proposals |-> 0]
    /\ run = NoRun

NextRestart ==
    \/ \E n \in Nodes : Start(n)
    \/ \E n \in Nodes : Register(n)
    \/ \E n \in Nodes : Deliver(n)
    \/ Lose
    \/ Return

SpecRestart == InitRestart /\ [][NextRestart]_vars

(***************************************************************************)
(* Gossip in steps. A handler that has committed a block calls             *)
(* Node.BroadcastBlock, which waits for broadcastLock, reads the           *)
(* directory, posts the block to every peer but the node itself, each post *)
(* in a goroutine of its own, and returns when every post has returned.    *)
(* The run starts where A has registered B and B has registered A, both    *)
(* hold the two blocks, and the transfer A has proposed to B is pending on *)
(* both.                                                                   *)
(***************************************************************************)
MutualChain ==
    LET add(name) == AddNodeData(PubHex(name), name, "nick", name)
        b1 == CreateBlockWithAddNode(1, Genesis.Header.Hash, add("B"), StartNow)
        b2 == CreateBlockWithAddNode(2, b1.Header.Hash, add("A"), StartNow)
    IN  <<Genesis, b1, b2>>

ProposedByA ==
    LET payload == BlockPayload("transaction", SampleTx, Sign(PrivKey("A"), SampleTx), NoSig)
    IN  NewPendingTransaction(GenerateID(payload, StartNow), payload, StartNow)

InitGossip ==
    /\ chain = [n \in Nodes |-> FromWireChain(ToWireChain(MutualChain))]
    /\ hashSet = [n \in Nodes |-> HashesOf(MutualChain)]
    /\ blockLog = [n \in Nodes |-> ReplaceAll(chain[n])]
    /\ pool = [n \in Nodes |-> {ProposedByA}]
    /\ pendingFile = [n \in Nodes |-> {ProposedByA}]
    /\ peers = [n \in Nodes |-> [x \in Nodes |-> NodeInfo(x, "nick", x, PubHex(PrivKey(x)))]]
    /\ net = {}
    /\ ev = [op |-> "idle"]
    /\ made = [blocks |-> 0, proposals |-> 0]
    /\ run = [calls |-> {}, cycles |-> [n \in Nodes |-> {}]]

\* a call of Node.BroadcastBlock that waits for broadcastLock
FanoutCall(n, w) == [node |-> n, body |-> w]

\* the lock is taken whatever its state
MutexIgnored(holders) == TRUE

\* sync.Mutex.Lock returns when no one holds the lock
MutexFree(holders) == holders = {}

\* a fan-out cycle: dir is the directory it has read, attempted the peers a
\* post was started to, left the peers whose post has not returned, failed
\* the peers whose post has returned an error
Cycle(n, w, dir) ==
    [node |-> n, body |-> w, dir |-> DOMAIN dir,
     attempted |-> (DOMAIN dir) \ {n}, left |-> (DOMAIN dir) \ {n}, failed |-> {}]

\* the posts that have not returned are given up when one fails
AfterPostStopAtFailure(cy, p, ok) ==
    IF ok THEN [cy EXCEPT !.left = @ \ {p}]
    ELSE [cy EXCEPT !.left = {}, !.failed = @ \cup {p}]

\* the post to p has returned: an error is logged, the others go on
AfterPost(cy, p, ok) ==
    [cy EXCEPT !.left = @ \ {p}, !.failed = IF ok THEN @ ELSE @ \cup {p}]

\* a block is gossiped although it was not written to the log
DispatchAlways(n, w, persisted) == {FanoutCall(n, w)}

\* the handlers call BroadcastBlock when the block was added and written
Dispatch(n, w, persisted) == IF persisted THEN {FanoutCall(n, w)} ELSE {}

\* AddBlock, then BlockStore.Append, which fails when the disk does
CommitBlock(n, b, persisted) ==
    /\ chain' = [chain EXCEPT ![n] = Append(@, b)]
    /\ hashSet' = [hashSet EXCEPT ![n] = @ \cup {b.Header.Hash}]
    /\ blockLog' = [blockLog EXCEPT ![n] = IF persisted THEN AppendLine(@, b) ELSE @]

\* POST /register up to the call of BroadcastBlock
StepRegister(n) ==
    /\ ev = Idle
    /\ MayMake(n)
    /\ made' = Made
    /\ \E name \in Names, now \in Stamps, persisted \in BOOLEAN :
         LET info == NodeInfo(name, "nick", name, PubHex(name))
             block == CreateBlockWithAddNode(GetLastIndex(chain[n]) + 1, GetLastHash(chain[n]),
                                             AddNodeData(PubHex(name), name, "nick", name), now)
         IN  /\ AddBlock(chain[n], hashSet[n], block) = "ok"
             /\ CommitBlock(n, block, persisted)
             /\ peers' = [peers EXCEPT ![n] = IF persisted THEN Save(@, name, info).dir ELSE @]
             /\ run' = [run EXCEPT !.calls = @ \cup Dispatch(n, convertBlockToServer(block), persisted)]
    /\ UNCHANGED <<pool, pendingFile, net, ev>>

\* POST /transaction/approve up to the call of BroadcastBlock
StepApprove(n) ==
    /\ ev = Idle
    /\ MayMake(n)
    /\ made' = Made
    /\ \E pendingTx \in pool[n], now \in Stamps, persisted \in BOOLEAN :
         LET txData == GetTransactionData(pendingTx.Payload).data
             block == CreateBlockWithTransaction(GetLastIndex(chain[n]) + 1, GetLastHash(chain[n]),
                                                 txData, pendingTx.Payload.FromSignature,
                                                 Sign(PrivKey(n), txData), now)
         IN  /\ AddBlock(chain[n], hashSet[n], block) = "ok"
             /\ CommitBlock(n, block, persisted)
             /\ pool' = [pool EXCEPT ![n] = IF persisted THEN Remove(@, pendingTx.ID) ELSE @]
             /\ pendingFile' = [pendingFile EXCEPT ![n] =
                                   IF persisted THEN Remove(pool[n], pendingTx.ID) ELSE @]
             /\ run' = [run EXCEPT !.calls = @ \cup Dispatch(n, convertBlockToServer(block), persisted)]
    /\ UNCHANGED <<peers, net, ev>>

\* a call of BroadcastBlock gets the lock, reads the directory and starts the
\* posts
FanoutBegin(n) ==
    /\ ev = Idle
    /\ \E c \in run.calls :
         /\ c.node = n
         /\ MutexFree(run.cycles[n])
         /\ run' = [run EXCEPT !.calls = @ \ {c},
                               !.cycles[n] = @ \cup {Cycle(n, c.body, peers[n])}]
    /\ UNCHANGED <<chain, hashSet, blockLog, pool, pendingFile, peers, net, ev, made>>

\* the state of node n that a post of n may not change
LocalState(n) ==
    [chain |-> chain[n], hashSet |-> hashSet[n], blockLog |-> blockLog[n], pool |-> pool[n],
     pendingFile |-> pendingFile[n], peers |-> peers[n]]

\* the case of the post of cycle cy to p that returns
PostFacts(cy, p) == [cycle |-> cy, peer |-> p, local |-> LocalState(cy.node)]

\* POST /block is served only while the receiving node is in no fan-out
\* cycle, as if ReceiveBlock called BroadcastBlock itself
ServedAfterFanout(holders) == holders = {}

\* POST /block is served by ReceiveBlock whoever holds broadcastLock of the
\* receiving node: the gossip it starts is a goroutine of its own
ServedAside(holders) == TRUE

\* the post of cycle cy to p returns a transport error
PostFailed(n, cy, p) ==
    /\ UNCHANGED <<chain, hashSet, blockLog>>
    /\ run' = [run EXCEPT !.cycles[n] = (@ \ {cy}) \cup {AfterPost(cy, p, FALSE)}]
    /\ ev' = Event("post", n, "failed", {}, PostFacts(cy, p))

\* the post of cycle cy to node p returns what ReceiveBlock of p answers
PostServed(n, cy, p) ==
    /\ p \in Nodes
    /\ ServedAside(run.cycles[p])
    /\ LET r == ReceiveOutcome(p, cy.body) IN
       IF r = "appended"
       THEN /\ Len(chain[p]) < MaxChain
            /\ \E persisted \in BOOLEAN :
                 /\ CommitBlock(p, convertServerToBlock(cy.body), persisted)
                 /\ run' = [run EXCEPT
                              !.calls = @ \cup Dispatch(p, cy.body, persisted),
                              !.cycles[n] = (@ \ {cy}) \cup {AfterPost(cy, p, persisted)}]
                 /\ ev' = Event("post", n, IF persisted THEN "ok" ELSE "failed", {},
                                PostFacts(cy, p))
       ELSE /\ UNCHANGED <<chain, hashSet, blockLog>>
            /\ run' = [run EXCEPT !.cycles[n] =
                          (@ \ {cy}) \cup {AfterPost(cy, p, r \in ReceiveSuccess)}]
            /\ ev' = Event("post", n, IF r \in ReceiveSuccess THEN "ok" ELSE "failed", {},
                           PostFacts(cy, p))

\* one post of a cycle to a peer of answering returns: the peer, when it is a
\* node that is reached, has served it with ReceiveBlock, and any other post
\* has failed
PostReturnsFrom(n, answering) ==
    /\ UNCHANGED <<pool, pendingFile, peers, net, made>>
    /\ \E cy \in run.cycles[n] : \E p \in cy.left \cap answering :
         \/ PostFailed(n, cy, p)
         \/ PostServed(n, cy, p)

\* one post of a cycle returns, whichever peer it went to
PostReturns(n) ==
    /\ ev = Idle
    /\ PostReturnsFrom(n, Names)

\* one post of a cycle returns when every peer answers: a node serves the
\* post, the address of a peer that is no node refuses the connection
PostAnswered(n) ==
    /\ ev = Idle
    /\ UNCHANGED <<pool, pendingFile, peers, net, made>>
    /\ \E cy \in run.cycles[n] : \E p \in cy.left :
         IF p \in Nodes THEN PostServed(n, cy, p) ELSE PostFailed(n, cy, p)

\* every post has returned: BroadcastBlock returns and gives the lock back
FanoutEnd(n) ==
    /\ ev = Idle
    /\ \E cy \in run.cycles[n] :
         /\ cy.left = {}
         /\ run' = [run EXCEPT !.cycles[n] = @ \ {cy}]
    /\ UNCHANGED <<chain, hashSet, blockLog, pool, pendingFile, peers, net, ev, made>>

\* the response of the post goes back to the goroutine that sent it
PostLogged ==
    /\ ev # Idle
    /\ ev' = Idle
    /\ UNCHANGED <<chain, hashSet, blockLog, pool, pendingFile, peers, net, made, run>>

NextGossip ==
    \/ \E n \in Nodes : StepRegister(n)
    \/ \E n \in Nodes : StepApprove(n)
    \/ \E n \in Nodes : FanoutBegin(n)
    \/ \E n \in Nodes : PostReturns(n)
    \/ \E n \in Nodes : FanoutEnd(n)
    \/ PostLogged

SpecGossip == InitGossip /\ [][NextGossip]_vars

(***************************************************************************)
(* core.Chain under two goroutines that call AddBlock at the same time.    *)
(* AddBlock takes the write lock of the chain, validates the block against *)
(* the tail, appends it and gives the lock back.                           *)
(***************************************************************************)
Threads == {1, 2}

InitAppend ==
    /\ chain = [n \in Nodes |-> <<Genesis>>]
    /\ hashSet = [n \in Nodes |-> {Genesis.Header.Hash}]
    /\ blockLog = [n \in Nodes |-> AppendLine(<<>>, Genesis)]
    /\ pool = [n \in Nodes |-> {}]
    /\ pendingFile = [n \in Nodes |-> {}]
    /\ peers = [n \in Nodes |-> [x \in {n} |-> NodeInfo(n, "nick", n, PubHex(PrivKey(n)))]]
    /\ net = {}
    /\ ev = [op |-> "idle"]
    /\ made = [blocks |-> 0, proposals |-> 0]
    /\ run = [mu |-> {}, base |-> <<Genesis>>,
              th |-> [t \in Threads |-> [pc |-> "idle", block |-> Genesis, result |-> "none"]]]

\* what the two calls may be handed: the blocks that extend the tail, and one
\* of them with a hash that is not its own
ConcurrentInputs(blocks) ==
    LET good == {NewBlock(Last(blocks).Header.Index + 1, Last(blocks).Header.Hash, p, t) :
                    p \in SamplePayloads, t \in Stamps}
    IN  good \cup {[b EXCEPT !.Header.Hash = <<"bad">>] : b \in good}

\* the writer takes the lock as a reader does: both goroutines may hold it
ChainMuShared(holders) == TRUE

\* c.mu.Lock returns when no goroutine holds the lock
ChainMuFree(holders) == holders = {}

\* two goroutines call AddBlock, each with a block of its own
CallBoth ==
    /\ \A t \in Threads : run.th[t].pc = "idle"
    /\ Len(chain[CUT]) < MaxChain
    /\ \E b \in [Threads -> ConcurrentInputs(chain[CUT])] :
         run' = [run EXCEPT !.base = chain[CUT],
                            !.th = [t \in Threads |-> [pc |-> "called", block |-> b[t],
                                                       result |-> "none"]]]
    /\ UNCHANGED <<chain, hashSet, blockLog, pool, pendingFile, peers, net, ev, made>>

\* c.mu.Lock()
AddLock(t) ==
    /\ run.th[t].pc = "called"
    /\ ChainMuFree(run.mu)
    /\ run' = [run EXCEPT !.mu = @ \cup {t}, !.th[t].pc = "locked"]
    /\ UNCHANGED <<chain, hashSet, blockLog, pool, pendingFile, peers, net, ev, made>>

\* the checks of AddBlock against the chain as it is
AddCheck(t) ==
    /\ run.th[t].pc = "locked"
    /\ run' = [run EXCEPT !.th[t].pc = "checked",
                          !.th[t].result = AddBlock(chain[CUT], hashSet[CUT], run.th[t].block)]
    /\ UNCHANGED <<chain, hashSet, blockLog, pool, pendingFile, peers, net, ev, made>>

\* the append when the checks have passed, and the deferred c.mu.Unlock()
AddCommit(t) ==
    /\ run.th[t].pc = "checked"
    /\ IF run.th[t].result = "ok"
       THEN /\ chain' = [chain EXCEPT ![CUT] = Append(@, run.th[t].block)]
            /\ hashSet' = [hashSet EXCEPT ![CUT] = @ \cup {run.th[t].block.Header.Hash}]
       ELSE UNCHANGED <<chain, hashSet>>
    /\ run' = [run EXCEPT !.mu = @ \ {t}, !.th[t].pc = "done"]
    /\ UNCHANGED <<blockLog, pool, pendingFile, peers, net, ev, made>>

\* both calls have returned
BothReturn ==
    /\ \A t \in Threads : run.th[t].pc = "done"
    /\ run' = [run EXCEPT !.th = [t \in Threads |-> [@[t] EXCEPT !.pc = "idle"]]]
    /\ UNCHANGED <<chain, hashSet, blockLog, pool, pendingFile, peers, net, ev, made>>

NextAppend ==
    \/ CallBoth
    \/ \E t \in Threads : AddLock(t)
    \/ \E t \in Threads : AddCheck(t)
    \/ \E t \in Threads : AddCommit(t)
    \/ BothReturn

SpecAppend == InitAppend /\ [][NextAppend]_vars

(***************************************************************************)
(* Node.ApproveTransaction under goroutines that approve the same id at    *)
(* the same time. Every call of the pool, of the chain and of the stores   *)
(* is a step of its own: the pool and the chain lock themselves for the    *)
(* length of one call, and the node has no lock around the calls. The run  *)
(* starts where InitGossip does.                                           *)
(***************************************************************************)
IdleThread == [pc |-> "idle", entry |-> {}, block |-> Genesis, result |-> "none"]

InitApprove ==
    /\ chain = [n \in Nodes |-> FromWireChain(ToWireChain(MutualChain))]
    /\ hashSet = [n \in Nodes |-> HashesOf(MutualChain)]
    /\ blockLog = [n \in Nodes |-> ReplaceAll(chain[n])]
    /\ pool = [n \in Nodes |-> {ProposedByA}]
    /\ pendingFile = [n \in Nodes |-> {ProposedByA}]
    /\ peers = [n \in Nodes |-> [x \in Nodes |-> NodeInfo(x, "nick", x, PubHex(PrivKey(x)))]]
    /\ net = {}
    /\ ev = [op |-> "idle"]
    /\ made = [blocks |-> 0, proposals |-> 0]
    /\ run = [th |-> [n \in Nodes |-> [t \in Threads |-> IdleThread]]]

\* POST /transaction/approve with the id of the pending transfer arrives and
\* PendingPool.Get answers
ApproveGet(n, t) ==
    /\ run.th[n][t].pc = "idle"
    /\ run' = [run EXCEPT !.th[n][t] =
                  IF Get(pool[n], ProposedByA.ID) = {}
                  THEN [IdleThread EXCEPT !.pc = "done", !.result = "not_found"]
                  ELSE [IdleThread EXCEPT !.pc = "got", !.entry = Get(pool[n], ProposedByA.ID)]]
    /\ UNCHANGED <<chain, hashSet, blockLog, pool, pendingFile, peers, net, ev, made>>

\* the to_signature, Chain.LastBlock and CreateBlockWithTransaction
ApproveBuild(n, t) ==
    /\ run.th[n][t].pc = "got"
    /\ \E now \in Stamps :
         LET pendingTx == CHOOSE x \in run.th[n][t].entry : TRUE
             txData == GetTransactionData(pendingTx.Payload).data
         IN  run' = [run EXCEPT !.th[n][t].pc = "built",
                                !.th[n][t].block =
                                    CreateBlockWithTransaction(
                                        GetLastIndex(chain[n]) + 1, GetLastHash(chain[n]), txData,
                                        pendingTx.Payload.FromSignature,
                                        Sign(PrivKey(n), txData), now)]
    /\ UNCHANGED <<chain, hashSet, blockLog, pool, pendingFile, peers, net, ev, made>>

\* Chain.AddBlock, under the lock of the chain
ApproveAdd(n, t) ==
    /\ run.th[n][t].pc = "built"
    /\ LET r == AddBlock(chain[n], hashSet[n], run.th[n][t].block) IN
       IF r = "ok"
       THEN /\ Len(chain[n]) < MaxChain
            /\ chain' = [chain EXCEPT ![n] = Append(@, run.th[n][t].block)]
            /\ hashSet' = [hashSet EXCEPT ![n] = @ \cup {run.th[n][t].block.Header.Hash}]
            /\ run' = [run EXCEPT !.th[n][t].pc = "added"]
       ELSE /\ UNCHANGED <<chain, hashSet>>
            /\ run' = [run EXCEPT !.th[n][t].pc = "done", !.th[n][t].result = "add_failed"]
    /\ UNCHANGED <<blockLog, pool, pendingFile, peers, net, ev, made>>

\* BlockStore.Append
ApprovePersist(n, t) ==
    /\ run.th[n][t].pc = "added"
    /\ blockLog' = [blockLog EXCEPT ![n] = AppendLine(@, run.th[n][t].block)]
    /\ run' = [run EXCEPT !.th[n][t].pc = "persisted"]
    /\ UNCHANGED <<chain, hashSet, pool, pendingFile, peers, net, ev, made>>

\* PendingPool.Remove, PendingPool.List and PendingStore.Save
ApproveRemove(n, t) ==
    /\ run.th[n][t].pc = "persisted"
    /\ pool' = [pool EXCEPT ![n] = Remove(@, ProposedByA.ID)]
    /\ pendingFile' = [pendingFile EXCEPT ![n] = Remove(pool[n], ProposedByA.ID)]
    /\ run' = [run EXCEPT !.th[n][t].pc = "done", !.th[n][t].result = "ok"]
    /\ UNCHANGED <<chain, hashSet, blockLog, peers, net, ev, made>>

NextApprove ==
    \/ \E n \in Nodes, t \in Threads : ApproveGet(n, t)
    \/ \E n \in Nodes, t \in Threads : ApproveBuild(n, t)
    \/ \E n \in Nodes, t \in Threads : ApproveAdd(n, t)
    \/ \E n \in Nodes, t \in Threads : ApprovePersist(n, t)
    \/ \E n \in Nodes, t \in Threads : ApproveRemove(n, t)

SpecApprove == InitApprove /\ [][NextApprove]_vars

(***************************************************************************)
(* A transfer from its proposal to the gossip of its block. The run starts *)
(* where A has registered B and B has registered A and both hold the same  *)
(* chain; A takes proposals, B approves them, and every request that was  *)
(* sent is served: a post is not lost, and a server that has requests to   *)
(* serve serves them.                                                      *)
(***************************************************************************)
InitDelivery ==
    /\ chain = [n \in Nodes |-> FromWireChain(ToWireChain(MutualChain))]
    /\ hashSet = [n \in Nodes |-> HashesOf(MutualChain)]
    /\ blockLog = [n \in Nodes |-> ReplaceAll(chain[n])]
    /\ pool = [n \in Nodes |-> {}]
    /\ pendingFile = [n \in Nodes |-> {}]
    /\ peers = [n \in Nodes |-> [x \in Nodes |-> NodeInfo(x, "nick", x, PubHex(PrivKey(x)))]]
    /\ net = {}
    /\ ev = [op |-> "idle"]
    /\ made = [blocks |-> 0, proposals |-> 0]
    /\ run = NoRun

NextDelivery ==
    \/ ProposeAgain("A")
    \/ DeliverPropose("B")
    \/ Approve("B")
    \/ \E n \in Nodes : Deliver(n)
    \/ Return

SpecDelivery ==
    /\ InitDelivery
    /\ [][NextDelivery]_vars
    /\ WF_vars(Return)
    /\ \A n \in Nodes : SF_vars(Deliver(n))

(***************************************************************************)
(* Nodes that keep running Node.SyncChain. The run starts where A and B    *)
(* hold the same chain, each other's record and a pending proposal; blocks *)
(* are committed by approvals and registrations until MaxBlocks were made, *)
(* their posts reach the peers, and every node runs a sync again and       *)
(* again. Every node answers GET /chain; a peer that is no node does not.  *)
(***************************************************************************)
InitConverge ==
    /\ chain = [n \in Nodes |-> FromWireChain(ToWireChain(MutualChain))]
    /\ hashSet = [n \in Nodes |-> HashesOf(MutualChain)]
    /\ blockLog = [n \in Nodes |-> ReplaceAll(chain[n])]
    /\ pool = [n \in Nodes |-> {ProposedByA}]
    /\ pendingFile = [n \in Nodes |-> {ProposedByA}]
    /\ peers = [n \in Nodes |-> [x \in Nodes |-> NodeInfo(x, "nick", x, PubHex(PrivKey(x)))]]
    /\ net = {}
    /\ ev = [op |-> "idle"]
    /\ made = [blocks |-> 0, proposals |-> 0]
    /\ run = NoRun

\* a sync of node n that reaches every node of its directory
SyncReached(n) ==
    /\ ev = Idle
    /\ UNCHANGED run
    /\ UNCHANGED made
    /\ SyncChain(n, ((DOMAIN peers[n]) \ {n}) \cap Nodes, <<>>)

\* POST /register of the foreign peer at node n
RegisterPeer(n) ==
    /\ ev = Idle
    /\ UNCHANGED run
    /\ MayMake(n)
    /\ made' = Made
    /\ \E now \in Stamps : handleRegister(n, ForeignName, "nick", ForeignName, PubHex(ForeignName), now)

\* POST /transaction/approve of an entry pending at node n
ApprovePending(n) ==
    /\ ev = Idle
    /\ UNCHANGED run
    /\ MayMake(n)
    /\ made' = Made
    /\ \E x \in pool[n], now \in Stamps : ApproveTransaction(n, x.ID, now)

NextConverge ==
    \/ \E n \in Nodes : ApprovePending(n)
    \/ \E n \in Nodes : RegisterPeer(n)
    \/ \E n \in Nodes : Deliver(n)
    \/ \E n \in Nodes : SyncReached(n)
    \/ Return

SpecConverge ==
    /\ InitConverge
    /\ [][NextConverge]_vars
    /\ WF_vars(Return)
    /\ \A n \in Nodes : SF_vars(SyncReached(n))

(***************************************************************************)
(* Requests on the pending pool of one node served at the same time        *)
(* (net/http serves every request in a goroutine of its own, and Node has  *)
(* no lock of its own around a handler). Each thread serves one request:   *)
(* an approve or a reject of the pending transfer, or a proposal of a      *)
(* second transfer. A step is what the handler does under one lock of      *)
(* PendingPool or Chain, or one write of a file.                           *)
(***************************************************************************)
Decider == "B"

\* the transfer the second proposal is about
OtherTx == TransactionData("B", "A", 10, "lunch")

InitDecide ==
    /\ chain = [n \in Nodes |-> FromWireChain(ToWireChain(MutualChain))]
    /\ hashSet = [n \in Nodes |-> HashesOf(MutualChain)]
    /\ blockLog = [n \in Nodes |-> ReplaceAll(chain[n])]
    /\ pool = [n \in Nodes |-> {ProposedByA}]
    /\ pendingFile = [n \in Nodes |-> {ProposedByA}]
    /\ peers = [n \in Nodes |-> [x \in Nodes |-> NodeInfo(x, "nick", x, PubHex(PrivKey(x)))]]
    /\ net = {}
    /\ ev = [op |-> "idle"]
    /\ made = [blocks |-> 0, proposals |-> 0]
    /\ run = [th |-> [n \in Nodes |-> [t \in Threads |-> IdleThread]],
              items |-> [n \in Nodes |-> [t \in Threads |-> {}]]]

\* PendingPool.List: the snapshot the thread will save
ListItems(n, t, to) ==
    /\ run' = [run EXCEPT !.th[n][t].pc = to, !.items[n][t] = pool[n]]
    /\ UNCHANGED <<chain, hashSet, blockLog, pool, pendingFile, peers, net, ev, made>>

\* PendingStore.Save of the snapshot, and the handler returns
SaveItems(n, t, result, sent) ==
    /\ pendingFile' = [pendingFile EXCEPT ![n] = run.items[n][t]]
    /\ net' = net \cup sent
    /\ run' = [run EXCEPT !.th[n][t].pc = "done", !.th[n][t].result = result]
    /\ UNCHANGED <<chain, hashSet, blockLog, pool, peers, ev, made>>

\* approve: PendingPool.Remove
ApproveDrop(n, t) ==
    /\ run.th[n][t].pc = "persisted"
    /\ pool' = [pool EXCEPT ![n] = Remove(@, ProposedByA.ID)]
    /\ run' = [run EXCEPT !.th[n][t].pc = "dropped"]
    /\ UNCHANGED <<chain, hashSet, blockLog, pendingFile, peers, net, ev, made>>

\* approve: PendingPool.List
ApproveList(n, t) ==
    /\ run.th[n][t].pc = "dropped"
    /\ ListItems(n, t, "listed")

\* approve: PendingStore.Save, the block is returned
ApproveSave(n, t) ==
    /\ run.th[n][t].pc = "listed"
    /\ SaveItems(n, t, "ok", {})

\* POST /transaction/reject with the id of the pending transfer arrives and
\* PendingPool.Get answers
RejectGet(n, t) ==
    /\ run.th[n][t].pc = "idle"
    /\ run' = [run EXCEPT !.th[n][t] =
                  IF Get(pool[n], ProposedByA.ID) = {}
                  THEN [IdleThread EXCEPT !.pc = "done", !.result = "reject_not_found"]
                  ELSE [IdleThread EXCEPT !.pc = "reject_got"]]
    /\ UNCHANGED <<chain, hashSet, blockLog, pool, pendingFile, peers, net, ev, made>>

\* reject: PendingPool.Remove
RejectDrop(n, t) ==
    /\ run.th[n][t].pc = "reject_got"
    /\ pool' = [pool EXCEPT ![n] = Remove(@, ProposedByA.ID)]
    /\ run' = [run EXCEPT !.th[n][t].pc = "reject_dropped"]
    /\ UNCHANGED <<chain, hashSet, blockLog, pendingFile, peers, net, ev, made>>

\* reject: PendingPool.List
RejectList(n, t) ==
    /\ run.th[n][t].pc = "reject_dropped"
    /\ ListItems(n, t, "reject_listed")

\* reject: PendingStore.Save, nil is returned
RejectSave(n, t) ==
    /\ run.th[n][t].pc = "reject_listed"
    /\ SaveItems(n, t, "rejected", {})

\* what ProposeTransaction makes of OtherTx, proposed locally at time now
OtherEntry(n, now) ==
    LET payload == BlockPayload("transaction", OtherTx, Sign(PrivKey(n), OtherTx), NoSig)
    IN  NewPendingTransaction(GenerateID(payload, now), payload, now)

\* POST /transaction/propose of OtherTx arrives: the entry is built and
\* PendingPool.Add takes it
ProposeAdd(n, t) ==
    /\ run.th[n][t].pc = "idle"
    /\ \E now \in Stamps :
         /\ pool' = [pool EXCEPT ![n] = Add(@, OtherEntry(n, now))]
         /\ run' = [run EXCEPT !.th[n][t] =
                       [IdleThread EXCEPT !.pc = "propose_added", !.entry = {OtherEntry(n, now)}]]
    /\ UNCHANGED <<chain, hashSet, blockLog, pendingFile, peers, net, ev, made>>

\* propose: PendingPool.List
ProposeList(n, t) ==
    /\ run.th[n][t].pc = "propose_added"
    /\ ListItems(n, t, "propose_listed")

\* the save, then the forward to the peer named in to
ProposeSave(n, t) ==
    /\ run.th[n][t].pc = "propose_listed"
    /\ SaveItems(n, t, "proposed",
                 IF OtherTx.to # n /\ OtherTx.to \in DOMAIN peers[n] /\ OtherTx.to \in Nodes
                 THEN {ProposeMsg(OtherTx.to, OtherTx, Sign(PrivKey(n), OtherTx))} ELSE {})

NextDecide ==
    \/ \E t \in Threads : ApproveGet(Decider, t)
    \/ \E t \in Threads : ApproveBuild(Decider, t)
    \/ \E t \in Threads : ApproveAdd(Decider, t)
    \/ \E t \in Threads : ApprovePersist(Decider, t)
    \/ \E t \in Threads : ApproveDrop(Decider, t)
    \/ \E t \in Threads : ApproveList(Decider, t)
    \/ \E t \in Threads : ApproveSave(Decider, t)
    \/ \E t \in Threads : RejectGet(Decider, t)
    \/ \E t \in Threads : RejectDrop(Decider, t)
    \/ \E t \in Threads : RejectList(Decider, t)
    \/ \E t \in Threads : RejectSave(Decider, t)
    \/ \E t \in Threads : ProposeAdd(Decider, t)
    \/ \E t \in Threads : ProposeList(Decider, t)
    \/ \E t \in Threads : ProposeSave(Decider, t)

SpecDecide == InitDecide /\ [][NextDecide]_vars

(***************************************************************************)
(* Requests that commit blocks on one node served at the same time: an     *)
(* approve of the pending transfer, a registration of the foreign peer, a  *)
(* POST /block with the block A appended last, and a Node.SyncChain. A     *)
(* holds one block more than B. A step is what the operation does under    *)
(* one lock of Chain or PendingPool, or one write of a file; a write of    *)
(* the block log either succeeds or fails.                                 *)
(***************************************************************************)
Committer == "B"

\* the chain of A: the shared chain and the registration of the foreign peer
AheadChain == Extend(FromWireChain(ToWireChain(MutualChain)), StartNow)

NoReads == [lastHash |-> NoHash, lastIndex |-> -1, maxLen |-> 0]

InitCommit ==
    /\ chain = [n \in Nodes |-> IF n = Committer THEN FromWireChain(ToWireChain(MutualChain))
                                ELSE AheadChain]
    /\ hashSet = [n \in Nodes |-> HashesOf(chain[n])]
    /\ blockLog = [n \in Nodes |-> ReplaceAll(chain[n])]
    /\ pool = [n \in Nodes |-> {ProposedByA}]
    /\ pendingFile = [n \in Nodes |-> {ProposedByA}]
    /\ peers = [n \in Nodes |-> [x \in Nodes |-> NodeInfo(x, "nick", x, PubHex(PrivKey(x)))]]
    /\ net = {BlockMsg(Committer, convertBlockToServer(Last(AheadChain)))}
    /\ ev = [op |-> "idle"]
    /\ made = [blocks |-> 0, proposals |-> 0]
    /\ run = [th |-> [n \in Nodes |-> [t \in Threads |-> IdleThread]],
              reads |-> [n \in Nodes |-> [t \in Threads |-> NoReads]],
              fetched |-> [n \in Nodes |-> [t \in Threads |-> <<>>]]]

\* Chain.AddBlock of the block the thread holds, under the lock of the chain
AddHeld(n, t, added) ==
    LET r == AddBlock(chain[n], hashSet[n], run.th[n][t].block) IN
    /\ IF r = "ok"
       THEN /\ Len(chain[n]) < MaxChain
            /\ chain' = [chain EXCEPT ![n] = Append(@, run.th[n][t].block)]
            /\ hashSet' = [hashSet EXCEPT ![n] = @ \cup {run.th[n][t].block.Header.Hash}]
            /\ run' = [run EXCEPT !.th[n][t].pc = added]
       ELSE /\ UNCHANGED <<chain, hashSet>>
            /\ run' = [run EXCEPT !.th[n][t].pc = "done", !.th[n][t].result = "add_failed"]
    /\ UNCHANGED <<blockLog, pool, pendingFile, peers, net, ev, made>>

\* BlockStore.Append returns an error: the operation returns it
PersistFails(n, t) ==
    /\ run' = [run EXCEPT !.th[n][t].pc = "done", !.th[n][t].result = "persist_failed"]
    /\ UNCHANGED <<chain, hashSet, blockLog, pool, pendingFile, peers, net, ev, made>>

\* approve: BlockStore.Append fails
ApprovePersistFails(n, t) ==
    /\ run.th[n][t].pc = "added"
    /\ PersistFails(n, t)

\* POST /register of the foreign peer arrives: Chain.LastBlock and
\* CreateBlockWithAddNode
RegisterBuild(n, t) ==
    /\ run.th[n][t].pc = "idle"
    /\ \E now \in Stamps :
         run' = [run EXCEPT !.th[n][t] =
                    [IdleThread EXCEPT !.pc = "register_built",
                                       !.block = CreateBlockWithAddNode(
                                                     GetLastIndex(chain[n]) + 1,
                                                     GetLastHash(chain[n]), ForeignNodeData, now)]]
    /\ UNCHANGED <<chain, hashSet, blockLog, pool, pendingFile, peers, net, ev, made>>

\* register: Chain.AddBlock
RegisterAdd(n, t) ==
    /\ run.th[n][t].pc = "register_built"
    /\ AddHeld(n, t, "register_added")

\* register: BlockStore.Append
RegisterPersist(n, t) ==
    /\ run.th[n][t].pc = "register_added"
    /\ blockLog' = [blockLog EXCEPT ![n] = AppendLine(@, run.th[n][t].block)]
    /\ run' = [run EXCEPT !.th[n][t].pc = "register_persisted"]
    /\ UNCHANGED <<chain, hashSet, pool, pendingFile, peers, net, ev, made>>

\* register: BlockStore.Append fails
RegisterPersistFails(n, t) ==
    /\ run.th[n][t].pc = "register_added"
    /\ PersistFails(n, t)

\* register: NodeStore.Save; the handler then gossips the block
RegisterSave(n, t) ==
    /\ run.th[n][t].pc = "register_persisted"
    /\ LET dir == Save(peers[n], ForeignName,
                       NodeInfo(ForeignName, "nick", ForeignName, PubHex(ForeignName))).dir
       IN  /\ peers' = [peers EXCEPT ![n] = dir]
           /\ net' = net \cup BroadcastBlock(n, dir, convertBlockToServer(run.th[n][t].block))
    /\ run' = [run EXCEPT !.th[n][t].pc = "done", !.th[n][t].result = "registered"]
    /\ UNCHANGED <<chain, hashSet, blockLog, pool, pendingFile, ev, made>>

\* POST /block arrives: the conversion, ValidateBlock, verifyBlockSignatures
\* and Chain.GetLastHash
ReceiveCheck(n, t) ==
    /\ run.th[n][t].pc = "idle"
    /\ \E m \in net :
         /\ m.kind = "block" /\ m.to = n
         /\ net' = net \ {m}
         /\ LET b == convertServerToBlock(m.body)
                v == ValidateBlock(b)
                sg == verifyBlockSignatures(peers[n], b)
            IN  IF v # "ok" \/ sg # "ok"
                THEN run' = [run EXCEPT !.th[n][t] =
                                [IdleThread EXCEPT !.pc = "done",
                                                   !.result = IF v # "ok" THEN v ELSE sg]]
                ELSE run' = [run EXCEPT !.th[n][t] =
                                [IdleThread EXCEPT !.pc = "receive_checked", !.block = b],
                                        !.reads[n][t].lastHash = GetLastHash(chain[n])]
    /\ UNCHANGED <<chain, hashSet, blockLog, pool, pendingFile, peers, ev, made>>

\* receive: Chain.GetLastIndex, and the branch on what was read (Chain.HasBlock
\* where the block is not ahead)
ReceiveBranch(n, t) ==
    /\ run.th[n][t].pc = "receive_checked"
    /\ LET b == run.th[n][t].block
           lastIndex == GetLastIndex(chain[n])
       IN  run' = [run EXCEPT
                      !.reads[n][t].lastIndex = lastIndex,
                      !.th[n][t].pc = IF b.Header.PrevHash = run.reads[n][t].lastHash
                                      THEN "receive_linked" ELSE "done",
                      !.th[n][t].result =
                          IF b.Header.PrevHash = run.reads[n][t].lastHash THEN "none"
                          ELSE IF b.Header.Index > lastIndex THEN "sync_needed"
                          ELSE IF HasBlock(hashSet[n], b.Header.Hash) THEN "duplicate"
                          ELSE "behind_or_conflicting"]
    /\ UNCHANGED <<chain, hashSet, blockLog, pool, pendingFile, peers, net, ev, made>>

\* receive: Chain.AddBlock
ReceiveAdd(n, t) ==
    /\ run.th[n][t].pc = "receive_linked"
    /\ AddHeld(n, t, "receive_added")

\* receive: BlockStore.Append, then go BroadcastBlock
ReceivePersist(n, t) ==
    /\ run.th[n][t].pc = "receive_added"
    /\ blockLog' = [blockLog EXCEPT ![n] = AppendLine(@, run.th[n][t].block)]
    /\ net' = net \cup BroadcastBlock(n, peers[n], convertBlockToServer(run.th[n][t].block))
    /\ run' = [run EXCEPT !.th[n][t].pc = "done", !.th[n][t].result = "appended"]
    /\ UNCHANGED <<chain, hashSet, pool, pendingFile, peers, ev, made>>

\* receive: BlockStore.Append fails
ReceivePersistFails(n, t) ==
    /\ run.th[n][t].pc = "receive_added"
    /\ PersistFails(n, t)

\* Node.SyncChain begins: NodeStore.LoadAll and Chain.Len
SyncMeasure(n, t) ==
    /\ run.th[n][t].pc = "idle"
    /\ run' = [run EXCEPT !.th[n][t] = [IdleThread EXCEPT !.pc = "sync_measured"],
                          !.reads[n][t].maxLen = Len(chain[n])]
    /\ UNCHANGED <<chain, hashSet, blockLog, pool, pendingFile, peers, net, ev, made>>

\* sync: the chains of the peers are fetched, a longest one that is longer
\* than what was measured is kept (a peer that is no node does not answer)
SyncFetch(n, t) ==
    /\ run.th[n][t].pc = "sync_measured"
    /\ LET reach == ((DOMAIN peers[n]) \ {n}) \cap Nodes
           cands == {p \in reach : /\ Len(GetChain(p)) > run.reads[n][t].maxLen
                                   /\ \A q \in reach : Len(GetChain(q)) <= Len(GetChain(p))}
       IN  IF cands = {}
           THEN run' = [run EXCEPT !.th[n][t].pc = "sync_fetched", !.fetched[n][t] = <<>>]
           ELSE \E p \in cands :
                   run' = [run EXCEPT !.th[n][t].pc = "sync_fetched",
                                      !.fetched[n][t] = FromWireChain(GetChain(p))]
    /\ UNCHANGED <<chain, hashSet, blockLog, pool, pendingFile, peers, net, ev, made>>

\* sync: the second Chain.Len and Chain.ReplaceChain
SyncReplace(n, t) ==
    /\ run.th[n][t].pc = "sync_fetched"
    /\ LET longestBlocks == run.fetched[n][t] IN
       IF Len(longestBlocks) = 0 \/ Len(longestBlocks) <= Len(chain[n])
       THEN /\ UNCHANGED <<chain, hashSet>>
            /\ run' = [run EXCEPT !.th[n][t].pc = "done", !.th[n][t].result = "nothing_longer"]
       ELSE IF ReplaceChain(chain[n], longestBlocks) = "ok"
       THEN /\ chain' = [chain EXCEPT ![n] = longestBlocks]
            /\ hashSet' = [hashSet EXCEPT ![n] = HashesOf(longestBlocks)]
            /\ run' = [run EXCEPT !.th[n][t].pc = "sync_replaced"]
       ELSE /\ UNCHANGED <<chain, hashSet>>
            /\ run' = [run EXCEPT !.th[n][t].pc = "done", !.th[n][t].result = "replace_failed"]
    /\ UNCHANGED <<blockLog, pool, pendingFile, peers, net, ev, made>>

\* sync: BlockStore.ReplaceAll of the fetched chain
SyncRewrite(n, t) ==
    /\ run.th[n][t].pc = "sync_replaced"
    /\ blockLog' = [blockLog EXCEPT ![n] = ReplaceAll(run.fetched[n][t])]
    /\ run' = [run EXCEPT !.th[n][t].pc = "done", !.th[n][t].result = "synced"]
    /\ UNCHANGED <<chain, hashSet, pool, pendingFile, peers, net, ev, made>>

NextCommit ==
    \/ \E t \in Threads : ApproveGet(Committer, t)
    \/ \E t \in Threads : ApproveBuild(Committer, t)
    \/ \E t \in Threads : ApproveAdd(Committer, t)
    \/ \E t \in Threads : ApprovePersist(Committer, t)
    \/ \E t \in Threads : ApprovePersistFails(Committer, t)
    \/ \E t \in Threads : ApproveRemove(Committer, t)
    \/ \E t \in Threads : RegisterBuild(Committer, t)
    \/ \E t \in Threads : RegisterAdd(Committer, t)
    \/ \E t \in Threads : RegisterPersist(Committer, t)
    \/ \E t \in Threads : RegisterPersistFails(Committer, t)
    \/ \E t \in Threads : RegisterSave(Committer, t)
    \/ \E t \in Threads : ReceiveCheck(Committer, t)
    \/ \E t \in Threads : ReceiveBranch(Committer, t)
    \/ \E t \in Threads : ReceiveAdd(Committer, t)
    \/ \E t \in Threads : ReceivePersist(Committer, t)
    \/ \E t \in Threads : ReceivePersistFails(Committer, t)
    \/ \E t \in Threads : SyncMeasure(Committer, t)
    \/ \E t \in Threads : SyncFetch(Committer, t)
    \/ \E t \in Threads : SyncReplace(Committer, t)
    \/ \E t \in Threads : SyncRewrite(Committer, t)

SpecCommit == InitCommit /\ [][NextCommit]_vars

(***************************************************************************)
(* The flood of a block. A and B know each other and hold the same chain;  *)
(* blocks are committed by approvals and registrations, a POST /block is   *)
(* served, lost, or sent once more by anyone who has seen the block, and a *)
(* node may be stopped and started again. The goroutines a node has        *)
(* started with go n.BroadcastBlock in ReceiveBlock are recorded by node   *)
(* and block hash: started holds them, again those started a second time.  *)
(***************************************************************************)
InitFlood ==
    /\ chain = [n \in Nodes |-> FromWireChain(ToWireChain(MutualChain))]
    /\ hashSet = [n \in Nodes |-> HashesOf(MutualChain)]
    /\ blockLog = [n \in Nodes |-> ReplaceAll(chain[n])]
    /\ pool = [n \in Nodes |-> {ProposedByA}]
    /\ pendingFile = [n \in Nodes |-> {ProposedByA}]
    /\ peers = [n \in Nodes |-> [x \in Nodes |-> NodeInfo(x, "nick", x, PubHex(PrivKey(x)))]]
    /\ net = {}
    /\ ev = [op |-> "idle"]
    /\ made = [blocks |-> 0, proposals |-> 0]
    /\ run = [started |-> {}, again |-> {}]

\* Node.ReceiveBlock of w on node n, and the record of the goroutine it starts
FloodReceive(n, w, served) ==
    /\ ReceiveOutcome(n, w) = "appended" => Len(chain[n]) < MaxChain
    /\ ReceiveBlock(n, w, served)
    /\ run' = IF ev'.bcast
              THEN [started |-> run.started \cup {<<n, w.Header.Hash>>},
                    again |-> run.again \cup ({<<n, w.Header.Hash>>} \cap run.started)]
              ELSE run

\* POST /block of a peer's gossip is served
FloodDeliver(n) ==
    /\ ev = Idle
    /\ UNCHANGED made
    /\ \E m \in net :
        /\ m.kind = "block" /\ m.to = n
        /\ FloodReceive(n, m.body, {m})

\* POST /block with a block some node holds arrives once more
FloodRepeat(n) ==
    /\ ev = Idle
    /\ UNCHANGED made
    /\ \E w \in SeenBlocks : FloodReceive(n, w, {})

NextFlood ==
    \/ \E n \in Nodes : ApprovePending(n)
    \/ \E n \in Nodes : RegisterPeer(n)
    \/ \E n \in Nodes : FloodDeliver(n)
    \/ \E n \in Nodes : FloodRepeat(n)
    \/ \E n \in Nodes : Start(n)
    \/ Lose
    \/ Return

SpecFlood == InitFlood /\ [][NextFlood]_vars

(***************************************************************************)
(* Nodes that gossip to each other at the same time. A and B approve the   *)
(* pending transfer or register a peer and call BroadcastBlock while the   *)
(* posts of the other are served. The transport answers: a post that was started        *)
(* returns, a call that waits for a free lock gets it, a cycle whose posts *)
(* have all returned ends.                                                 *)
(***************************************************************************)
NextCross ==
    \/ \E n \in Nodes : StepRegister(n)
    \/ \E n \in Nodes : StepApprove(n)
    \/ \E n \in Nodes : FanoutBegin(n)
    \/ \E n \in Nodes : PostAnswered(n)
    \/ \E n \in Nodes : FanoutEnd(n)
    \/ PostLogged

SpecCross ==
    /\ InitGossip
    /\ [][NextCross]_vars
    /\ WF_vars(PostLogged)
    /\ \A n \in Nodes : /\ SF_vars(FanoutBegin(n))
                        /\ SF_vars(PostAnswered(n))
                        /\ SF_vars(FanoutEnd(n))

(***************************************************************************)
(* Gossip when a registered peer accepts connections and never answers.    *)
(* sendBlock posts with http.Post, the default client of net/http, whose   *)
(* Timeout is zero: the request has no time limit (the client of package   *)
(* node with its 10 s is not the one sendBlock uses). A post to the silent *)
(* peer returns only when the client gives up.                             *)
(***************************************************************************)
SilentPeer == ForeignName

\* seconds after which the client of sendBlock gives a request up; zero is
\* never
SendTimeout == 0

\* the peers whose post comes back
Answering == IF SendTimeout > 0 THEN Names ELSE Names \ {SilentPeer}

\* one post of a cycle returns: served by a node, failed, or given up
PostHeard(n) ==
    /\ ev = Idle
    /\ PostReturnsFrom(n, Answering)

NextSilent ==
    \/ \E n \in Nodes : StepRegister(n)
    \/ \E n \in Nodes : StepApprove(n)
    \/ \E n \in Nodes : FanoutBegin(n)
    \/ \E n \in Nodes : PostHeard(n)
    \/ \E n \in Nodes : FanoutEnd(n)
    \/ PostLogged

SpecSilent ==
    /\ InitGossip
    /\ [][NextSilent]_vars
    /\ WF_vars(PostLogged)
    /\ \A n \in Nodes : /\ SF_vars(FanoutBegin(n))
                        /\ SF_vars(PostHeard(n))
                        /\ SF_vars(FanoutEnd(n))

(***************************************************************************)
(* The peer directory: registrations, and NodeStore.Save called with any   *)
(* name, as RunInit calls it with the name of the command line.            *)
(***************************************************************************)
\* the case of a Save of name on the directory dir
SaveFacts(dir, name) ==
    [name |-> name, safe |-> MatchesNodeName(name), dir |-> dir]

StoreSave ==
    /\ ev = Idle
    /\ UNCHANGED run
    /\ \E name \in SaveNames, nick \in Nicks :
         LET r == Save(peers[CUT], name, NodeInfo(name, nick, name, PubHex(name))) IN
         /\ peers' = [peers EXCEPT ![CUT] = r.dir]
         /\ UNCHANGED <<chain, hashSet, blockLog, pool, pendingFile, net, made>>
         /\ ev' = Event("save", CUT,
                        IF r.err THEN "error" ELSE IF r.escaped THEN "escaped" ELSE "ok",
                        {}, SaveFacts(peers[CUT], name))

NextStore ==
    \/ \E n \in Nodes : Register(n)
    \/ StoreSave
    \/ Return

SpecStore == Init /\ [][NextStore]_vars

(***************************************************************************)
(* Properties                                                              *)
(***************************************************************************)
Untouched == ev.touched = {} /\ ~ev.bcast

\* a key some node's directory registers for name verifies sig over tx
SignedUnderRegisteredKey(name, tx, sig) ==
    \E m \in Nodes : name \in DOMAIN peers[m] /\ Verify(peers[m][name].PublicKey, tx, sig)

\* C1: after any sequence of operations every node's chain is valid: its
\* first block is the fixed Genesis, block i has index i, each block's
\* prev_hash is the hash of the block before it, and each stored hash is the
\* hash recomputed from the block.
C1_ChainsValid ==
    \A n \in Nodes :
        /\ Len(chain[n]) > 0
        /\ chain[n][1] = Genesis
        /\ \A i \in 1..Len(chain[n]) :
              /\ chain[n][i].Header.Index = i - 1
              /\ chain[n][i].Header.Hash = CalcBlockHash(chain[n][i])
              /\ i > 1 => chain[n][i].Header.PrevHash = chain[n][i-1].Header.Hash

\* C2: every transaction block of every node's chain, however it got there
\* (approve, receive or sync), carries a from_signature that verifies under
\* the registered key of from and a to_signature that verifies under the
\* registered key of to, over the transaction data.
C2_TransactionsSigned ==
    \A n \in Nodes : \A i \in 1..Len(chain[n]) :
        LET p == chain[n][i].Payload IN
        p.Type = "transaction" =>
            /\ SignedUnderRegisteredKey(p.Data.from, p.Data, p.FromSignature)
            /\ SignedUnderRegisteredKey(p.Data.to, p.Data, p.ToSignature)

\* C3: AddBlock succeeds exactly when the block's hash and type are valid,
\* its prev_hash is the tail's hash, its index is the tail's index plus one
\* and its hash is not in the chain; on success the chain is the old chain
\* with the block appended, on failure blocks and hash set are unchanged.
C3_AppendExact ==
    ev.op = "append" =>
        LET f == ev.pre
            ok == ev.result = "ok"
        IN  /\ ok <=> (f.hashOk /\ f.typeOk /\ f.prevIsTail /\ f.next /\ f.fresh)
            /\ ok => /\ chain[CUT] = Append(f.blocks, f.block)
                     /\ hashSet[CUT] = f.hashSet \cup {f.block.Header.Hash}
            /\ ~ok => chain[CUT] = f.blocks /\ hashSet[CUT] = f.hashSet

C3_Appended ==
    ev.op = "append" /\ ev.result = "ok" /\ Len(chain[CUT]) = Len(ev.pre.blocks) + 1

\* C4: ReplaceChain replaces exactly when the candidate is strictly longer,
\* starts with the fixed Genesis, holds only valid blocks, is linked by
\* prev_hash and index and holds no hash twice; otherwise it fails and
\* leaves blocks and hash set unchanged.
C4_ReplaceExact ==
    ev.op = "replace" =>
        LET f == ev.pre
            ok == ev.result = "ok"
        IN  /\ ok <=> (f.longer /\ f.startsGenesis /\ f.allValid /\ f.linked /\ f.distinct)
            /\ ok => chain[CUT] = f.new /\ hashSet[CUT] = HashesOf(f.new)
            /\ ~ok => chain[CUT] = f.blocks /\ hashSet[CUT] = f.hashSet

\* C5: ReplaceChain rejects a candidate whose first block is not the fixed
\* Genesis, one with index 0 and prev_hash "0" but another payload included,
\* and leaves the local chain as it was.
C5_ForeignGenesisRejected ==
    (ev.op = "replace" /\ ~ev.pre.startsGenesis) =>
        /\ ev.result # "ok"
        /\ chain[CUT] = ev.pre.blocks /\ hashSet[CUT] = ev.pre.hashSet

\* C6: receiving a block with valid hash and type and verifying signatures
\* whose prev_hash is not the local tail's hash and whose index is above the
\* local last index returns sync-needed, changes neither chain, block log
\* nor pending pool, and sends nothing.
C6_SyncNeeded ==
    (/\ ev.op = "receive"
     /\ ev.pre.hashOk /\ ev.pre.type \in {"transaction", "add_node"} /\ ev.pre.signed
     /\ ~ev.pre.prevIsTail /\ ev.pre.ahead)
        => ev.result = "sync_needed" /\ Untouched

C6_Witness ==
    /\ ev.op = "receive"
    /\ ev.pre.hashOk /\ ev.pre.type \in {"transaction", "add_node"} /\ ev.pre.signed
    /\ ~ev.pre.prevIsTail /\ ev.pre.ahead
    /\ ev.result = "sync_needed"

\* C7 as stated: when two nodes with the same chain have each committed a
\* different block at the same index, a node receiving the other's block
\* rejects it as behind-or-conflicting and keeps its chain.
C7_ForkRejectedAsConflict ==
    (ev.op = "receive" /\ ev.pre.fork) =>
        ev.result = "behind_or_conflicting" /\ Untouched

\* C7 amended: such a block never changes the receiver and is never
\* appended, taken for a duplicate or answered with sync-needed; it is
\* rejected as behind-or-conflicting when its signatures verify under the
\* receiver's directory, and with the signature error otherwise.
C7_ForkRejected ==
    (ev.op = "receive" /\ ev.pre.fork) =>
        /\ Untouched
        /\ ev.result \notin {"appended", "duplicate", "sync_needed"}
        /\ IF ev.pre.signed THEN ev.result = "behind_or_conflicting"
           ELSE ev.result \in SigErrors

C7_Witness ==
    ev.op = "receive" /\ ev.pre.fork /\ ev.pre.signed /\ ev.result = "behind_or_conflicting"

\* C8: receiving a block whose stored hash is not the recomputed hash, or
\* whose payload type is neither transaction nor add_node, fails with a
\* validation error, changes neither chain, block log nor pending pool, and
\* sends nothing.
C8_InvalidRejected ==
    (ev.op = "receive" /\ (~ev.pre.hashOk \/ ev.pre.type \notin {"transaction", "add_node"}))
        => ev.result \in ValidationErrors /\ Untouched

C8_Witness ==
    /\ ev.op = "receive" /\ ~ev.pre.hashOk /\ ev.pre.type = "transaction"
    /\ ev.result = "invalid_hash"

\* C9: a received transaction block with an empty signature, with from or
\* to missing from the receiver's directory, or with a signature that does
\* not verify under the registered key is rejected without any change of
\* state; an add_node block never fails the signature checks.
C9_SignaturesChecked ==
    ev.op = "receive" =>
        /\ (ev.pre.sigEmpty \/ ev.pre.partyUnknown \/ ev.pre.sigWrong) =>
              /\ ev.result \in (IF ev.pre.hashOk THEN SigErrors ELSE ValidationErrors)
              /\ Untouched
        /\ ev.pre.type = "add_node" => ev.result \notin SigErrors

C9_Witness ==
    /\ ev.op = "receive" /\ ev.pre.hashOk /\ ev.pre.sigWrong
    /\ ~ev.pre.sigEmpty /\ ~ev.pre.partyUnknown
    /\ ev.result \in {"invalid_from_sig", "invalid_to_sig"}

\* C10: receiving a block that is already in the receiver's chain returns
\* success, changes neither chain, block log nor pending pool, and sends
\* nothing.
C10_HeldBlockSucceeds ==
    (ev.op = "receive" /\ ev.pre.held) => ev.result \in ReceiveSuccess /\ Untouched

\* C11 as stated: when a reached node's chain strictly extends the local
\* chain, the sync leaves the local chain equal to that node's chain, block
\* for block.
SameBlocks(c, d) ==
    /\ Len(c) = Len(d)
    /\ \A i \in 1..Len(c) : /\ c[i].Header.Index = d[i].Header.Index
                            /\ c[i].Header.Hash = d[i].Header.Hash
                            /\ c[i].Header.PrevHash = d[i].Header.PrevHash
                            /\ c[i].Payload = d[i].Payload

C11_ExtensionAdopted ==
    ev.op = "sync" =>
        \A p \in ev.pre.extenders : SameBlocks(chain[ev.node], chain[p])

\* C11 amended: when a reached node's chain strictly extends the local chain
\* and is longer than the chain of every other reached peer, the sync
\* succeeds and leaves the local chain equal to that node's chain, block for
\* block, with the block log rewritten to it.
C11_LongestExtensionAdopted ==
    ev.op = "sync" =>
        \A p \in ev.pre.extenders \cap ev.pre.longest :
            /\ ev.result = "ok"
            /\ SameBlocks(chain[ev.node], chain[p])
            /\ LoadAll(blockLog[ev.node]) = chain[ev.node]

C11_Witness ==
    /\ ev.op = "sync" /\ ev.result = "ok"
    /\ \E p \in ev.pre.extenders \cap ev.pre.longest :
          /\ SameBlocks(chain[ev.node], chain[p])
          /\ Len(chain[ev.node]) > ev.pre.len
    /\ ~ev.pre.unreached

\* C12: an approve, a register, a receive or a sync that begins with the
\* block log holding the node's chain ends with the block log holding the
\* node's chain: loading the log yields exactly the chain in memory.
C12_LogHoldsChain ==
    (ev.op \in {"approve", "register", "receive", "sync"} /\ ev.logged) =>
        LoadAll(blockLog[ev.node]) = chain[ev.node]

\* C13: approving an id that is pending appends exactly one transaction
\* block, with the tail's index plus one and the tail's hash as prev_hash,
\* carrying the entry's data and from_signature unchanged and a to_signature
\* made with the node's own private key; the block is written to the log and
\* the entry leaves the pool.
C13_ApproveAppends ==
    (ev.op = "approve" /\ ev.pre.entry # {}) =>
        LET f == ev.pre
            n == ev.node
            tail == Last(f.blocks)
            b == Last(chain[n])
        IN  /\ ev.result = "ok"
            /\ chain[n] = Append(f.blocks, b)
            /\ blockLog[n] = Append(f.log, MarshalBlock(b))
            /\ b.Header.Index = tail.Header.Index + 1
            /\ b.Header.PrevHash = tail.Header.Hash
            /\ b.Header.Hash = CalcBlockHash(b)
            /\ b.Payload.Type = "transaction"
            /\ \A e \in f.entry :
                  /\ b.Payload.Data = e.Payload.Data
                  /\ b.Payload.FromSignature = e.Payload.FromSignature
                  /\ pool[n] = f.pool \ {e}
            /\ b.Payload.ToSignature = Sign(PrivKey(n), b.Payload.Data)
            /\ Verify(PubHex(PrivKey(n)), b.Payload.Data, b.Payload.ToSignature)
            /\ Get(pool[n], f.id) = {}
            /\ pendingFile[n] = pool[n]

C13_Witness ==
    /\ ev.op = "approve" /\ ev.pre.entry # {} /\ ev.result = "ok"
    /\ Len(chain[ev.node]) = Len(ev.pre.blocks) + 1
    /\ Last(chain[ev.node]).Payload.Type = "transaction"

\* C14: an approve or a reject of an id that is not in the pool fails with
\* not-found and changes neither chain, block log, pool nor pending file, and
\* sends nothing; so does a second call for an id that was approved before.
C14_UnknownIdNotFound ==
    (ev.op \in {"approve", "reject"} /\ ev.pre.entry = {}) =>
        /\ ev.result = "not_found"
        /\ Untouched /\ ev.posted = {}
        /\ chain[ev.node] = ev.pre.blocks /\ pool[ev.node] = ev.pre.pool

C14_Witness ==
    /\ ev.op \in {"approve", "reject"} /\ ev.pre.entry = {} /\ ev.pre.spent
    /\ ev.result = "not_found"

\* C15: a reject of an id that is pending removes that entry and no other
\* from the pool and the pending file, changes neither chain nor block log,
\* and sends nothing.
C15_RejectRemovesOne ==
    (ev.op = "reject" /\ ev.pre.entry # {}) =>
        /\ ev.result = "ok"
        /\ Cardinality(ev.pre.entry) = 1
        /\ pool[ev.node] = ev.pre.pool \ ev.pre.entry
        /\ pendingFile[ev.node] = pool[ev.node]
        /\ ev.touched \subseteq {"pool", "pendingFile"}
        /\ chain[ev.node] = ev.pre.blocks
        /\ ~ev.bcast /\ ev.posted = {}

C15_Witness ==
    /\ ev.op = "reject" /\ ev.result = "ok"
    /\ Cardinality(ev.pre.pool) > 1
    /\ Cardinality(pool[ev.node]) = Cardinality(ev.pre.pool) - 1

\* every entry of every pool is a transaction with a from_signature and
\* without a to_signature
PoolWellFormed ==
    \A n \in Nodes : \A x \in pool[n] :
        /\ x.Payload.Type = "transaction"
        /\ x.Payload.FromSignature # NoSig
        /\ x.Payload.ToSignature = NoSig

\* the entry a proposal is to leave in the pool of the node it arrived at:
\* signed with the node's key when no from_signature came with it
ProposedPayload ==
    BlockPayload("transaction", ev.pre.tx,
                 IF ev.pre.supplied = NoSig THEN Sign(PrivKey(ev.node), ev.pre.tx)
                 ELSE ev.pre.supplied,
                 NoSig)

\* C16 as stated: every pool entry is a transaction with a non-empty
\* from_signature and an empty to_signature, and a propose makes the pool one
\* entry larger, the new entry being such an entry, and changes neither chain
\* nor block log.
C16_ProposeAddsOne ==
    /\ PoolWellFormed
    /\ ev.op = "propose" =>
          /\ \E pt \in pool[ev.node] \ ev.pre.pool :
                /\ pt.Payload = ProposedPayload
                /\ pool[ev.node] = ev.pre.pool \cup {pt}
          /\ ev.touched \subseteq {"pool", "pendingFile"}
          /\ chain[ev.node] = ev.pre.blocks

\* C16 amended: every pool entry is such an entry, and after a propose the
\* pool holds the proposed entry under its id, every entry with another id as
\* before, and no other entry: an entry that was pending under the same id is
\* replaced. Chain and block log do not change.
C16_ProposeStoresEntry ==
    /\ PoolWellFormed
    /\ ev.op = "propose" =>
          /\ \E pt \in pool[ev.node] :
                /\ pt.ID = ev.pre.id
                /\ pt.Payload = ProposedPayload
                /\ pool[ev.node] = {x \in ev.pre.pool : x.ID # ev.pre.id} \cup {pt}
          /\ pendingFile[ev.node] = pool[ev.node]
          /\ ev.touched \subseteq {"pool", "pendingFile"}
          /\ chain[ev.node] = ev.pre.blocks

C16_Witness ==
    /\ ev.op = "propose" /\ ev.pre.supplied = NoSig /\ ev.pre.pool # {}
    /\ Cardinality(pool[ev.node]) = Cardinality(ev.pre.pool) + 1
    /\ \E pt \in pool[ev.node] \ ev.pre.pool :
          pt.Payload.FromSignature = Sign(PrivKey(ev.node), ev.pre.tx)

C18_UnsafeNameRefused ==
    /\ (ev.op = "register" /\ ~ev.pre.safe) =>
          ev.result = "bad_request" /\ Untouched /\ ev.posted = {}
    /\ (ev.op = "save" /\ ~ev.pre.safe) =>
          ev.result = "error" /\ peers[ev.node] = ev.pre.dir

\* the part of C18 on register alone
C18_UnsafeRegisterRefused ==
    (ev.op = "register" /\ ~ev.pre.safe) =>
        ev.result = "bad_request" /\ Untouched /\ ev.posted = {}

\* C19: a sync that reaches a peer serving a well-formed chain longer than
\* the local one adopts a longer chain, even when another peer does not
\* answer or serves a chain that is longer but not well-formed: the sync
\* does not fail and the node does not stay on its shorter chain.
C19_ValidLongerAdopted ==
    (ev.op = "sync" /\ ev.pre.validLonger) =>
        /\ ev.result = "ok"
        /\ Len(chain[ev.node]) > ev.pre.len
        /\ WellFormedChain(chain[ev.node])

\* the part of C19 on peers that do not answer, when no reached peer serves
\* a longer chain that is not well-formed
C19_UnreachedSkipped ==
    (ev.op = "sync" /\ ev.pre.validLonger /\ ~ev.pre.invalidLonger) =>
        /\ ev.result = "ok"
        /\ Len(chain[ev.node]) > ev.pre.len
        /\ WellFormedChain(chain[ev.node])

C19_UnreachedWitness ==
    /\ ev.op = "sync" /\ ev.pre.validLonger /\ ~ev.pre.invalidLonger /\ ev.pre.unreached
    /\ ev.result = "ok"

\* C20: whenever a sync, that of a node start included, replaces the chain
\* in memory, the block log is rewritten so that loading it yields the new
\* chain; when a sync finds no longer chain, chain and block log are left as
\* they were.
C20_SyncPersists ==
    /\ (ev.op \in {"sync", "start"} /\ ev.result = "ok") =>
          LoadAll(blockLog[ev.node]) = chain[ev.node]
    /\ (ev.op = "sync" /\ ev.result = "nothing_longer") =>
          ev.touched = {}
    /\ (ev.op = "start" /\ ev.result = "nothing_longer") =>
          blockLog[ev.node] = ev.pre.log /\ chain[ev.node] = ev.pre.blocks

\* the part of C20 on the sync of a running node
C20_NodeSyncPersists ==
    /\ (ev.op = "sync" /\ ev.result = "ok") =>
          LoadAll(blockLog[ev.node]) = chain[ev.node]
    /\ (ev.op \in {"sync", "start"} /\ ev.result = "nothing_longer") =>
          ev.touched \cap {"blockLog", "pendingFile", "peers"} = {}
    /\ (ev.op = "sync" /\ ev.result = "nothing_longer") => ev.touched = {}

C20_NodeSyncWitness ==
    ev.op = "sync" /\ ev.result = "ok" /\ "blockLog" \in ev.touched

\* C28: PendingPool.Add of an entry whose id is pending replaces the stored
\* entry and leaves the size of the pool as it was, Add of an entry with a new
\* id makes the pool one entry larger, and Get of the id then returns the
\* entry added last.
C28_AddReplacesOrGrows ==
    ev.op = "propose" =>
        LET before == ev.pre.pool
            after == pool[ev.node]
            had == Get(before, ev.pre.id) # {}
        IN  /\ Cardinality(after) = Cardinality(before) + (IF had THEN 0 ELSE 1)
            /\ Get(after, ev.pre.id)
                  = {NewPendingTransaction(ev.pre.id, ProposedPayload, ev.pre.now)}

C28_Witness ==
    /\ ev.op = "propose"
    /\ Get(ev.pre.pool, ev.pre.id) # {}
    /\ Get(pool[ev.node], ev.pre.id) # Get(ev.pre.pool, ev.pre.id)
    /\ Cardinality(pool[ev.node]) = Cardinality(ev.pre.pool)

RoundTrip(b) == convertServerToBlock(convertBlockToServer(b))

\* the block that arrives passes ValidateBlock with the hash, index,
\* prev_hash, payload data and signatures of b, and its created_at is
\* formatted for the hash as that of b is
Preserved(b) ==
    LET r == RoundTrip(b) IN
    /\ ValidateBlock(r) = "ok"
    /\ r.Header.Hash = b.Header.Hash
    /\ CalcBlockHash(r) = b.Header.Hash
    /\ r.Header.Index = b.Header.Index
    /\ r.Header.PrevHash = b.Header.PrevHash
    /\ r.Payload = b.Payload
    /\ RFC3339(r.Header.CreatedAt) = RFC3339(b.Header.CreatedAt)

\* C26: the Genesis block and every block made by NewBlock (in an approve or
\* a register) pass ValidateBlock with the same hash after the conversion to
\* the wire form and back; index, prev_hash, payload data and both signatures
\* are kept and created_at comes back as the same hashed instant.
C26_RoundTripPreserves ==
    /\ Preserved(Genesis)
    /\ (ev.op \in {"approve", "register"} /\ ev.result = "ok") =>
          Preserved(Last(chain[ev.node]))

C26_Witness ==
    /\ ev.op = "approve" /\ ev.result = "ok"
    /\ Preserved(Last(chain[ev.node]))
    /\ RoundTrip(Last(chain[ev.node])).Header.CreatedAt # Last(chain[ev.node]).Header.CreatedAt

\* the fan-out cycles in progress on the nodes
CyclesInProgress == UNION {run.cycles[n] : n \in Nodes}

\* C23: on one node at most one fan-out cycle is in progress at any time: a
\* broadcast starts its posts only when every post of the cycle before has
\* returned and that call has given the lock back.
C23_OneCycleAtATime ==
    \A n \in Nodes : Cardinality(run.cycles[n]) <= 1

C23_Witness ==
    \E n \in Nodes :
        /\ \E cy \in run.cycles[n] : cy.left # {}
        /\ \E c \in run.calls : c.node = n

\* C24: a fan-out starts a post to every peer of the directory but the node
\* itself and none to the node itself; a post that fails leaves the other
\* posts of the cycle in progress and changes nothing of the node's state.
C24_FanoutReachesPeers ==
    /\ \A cy \in CyclesInProgress :
          /\ cy.node \notin cy.attempted
          /\ cy.attempted = cy.dir \ {cy.node}
          /\ cy.left \subseteq cy.attempted
          /\ cy.failed \subseteq cy.attempted \ cy.left
    /\ (ev.op = "post" /\ ev.result = "failed") =>
          /\ LocalState(ev.node) = ev.pre.local
          /\ \E cy \in run.cycles[ev.node] :
                /\ cy.body = ev.pre.cycle.body
                /\ cy.attempted = ev.pre.cycle.attempted
                /\ cy.left = ev.pre.cycle.left \ {ev.pre.peer}
                /\ ev.pre.peer \in cy.failed

C24_Witness ==
    /\ ev.op = "post" /\ ev.result = "failed"
    /\ Cardinality(ev.pre.cycle.attempted) > 1
    /\ \E cy \in run.cycles[ev.node] : cy.left # {} /\ cy.left \cap Nodes # {}

\* node n holds the block of wire form w in its chain and in its block log
Committed(n, w) ==
    \E i \in 1..Len(chain[n]) :
        /\ convertBlockToServer(chain[n][i]) = w
        /\ \E j \in 1..Len(blockLog[n]) : blockLog[n][j] = MarshalBlock(chain[n][i])

\* C29: a node gossips a block only when the block is in its chain and in its
\* block log: a block whose append or whose write to the log failed in an
\* approve, a register or a receive is not gossiped.
C29_GossipAfterCommit ==
    /\ \A c \in run.calls : Committed(c.node, c.body)
    /\ \A cy \in CyclesInProgress : Committed(cy.node, cy.body)

C29_Witness ==
    \E n \in Nodes :
        /\ Len(chain[n]) > Len(blockLog[n])
        /\ ~Committed(n, convertBlockToServer(Last(chain[n])))
        /\ run.calls = {} /\ CyclesInProgress = {}

\* C27: when two AddBlock calls run at the same time on one chain, each with
\* a valid block that extends the tail, the two blocks being different,
\* exactly one call succeeds and the other fails on the prev_hash check; the
\* chain is one block longer and is still a valid chain without a repeated
\* hash.
C27_OneAppendWins ==
    LET b1 == run.th[1].block
        b2 == run.th[2].block
        r1 == run.th[1].result
        r2 == run.th[2].result
        fits(b) == AddBlock(run.base, HashesOf(run.base), b) = "ok"
    IN  ((\A t \in Threads : run.th[t].pc = "done") /\ b1 # b2 /\ fits(b1) /\ fits(b2)) =>
            /\ {r1, r2} = {"ok", "prev_hash"}
            /\ chain[CUT] = Append(run.base, IF r1 = "ok" THEN b1 ELSE b2)
            /\ hashSet[CUT] = HashesOf(chain[CUT])
            /\ ValidateChain(chain[CUT]) = "ok"
            /\ \A i, j \in 1..Len(chain[CUT]) :
                  chain[CUT][i].Header.Hash = chain[CUT][j].Header.Hash => i = j

C27_Witness ==
    /\ \A t \in Threads : run.th[t].pc = "done"
    /\ run.th[1].block # run.th[2].block
    /\ run.th[1].result = "prev_hash" /\ run.th[2].result = "ok"
    /\ Len(chain[CUT]) = Len(run.base) + 1

\* the blocks of node n made of the pending transfer
BlocksOfEntry(n) ==
    {i \in 1..Len(chain[n]) :
        /\ chain[n][i].Payload.Type = "transaction"
        /\ chain[n][i].Payload.Data = ProposedByA.Payload.Data
        /\ chain[n][i].Payload.FromSignature = ProposedByA.Payload.FromSignature}

\* C30: when approve is called two or more times at the same time with the id
\* of one pending entry, at most one block is appended to the chain for that
\* entry.
C30_ApprovedOnce ==
    \A n \in Nodes : Cardinality(BlocksOfEntry(n)) <= 1

\* B has just approved a transfer that A proposed to it, on the chain that A
\* holds, and the block is the i-th of B's chain
ApprovedOnSharedChain(i) ==
    /\ ev.op = "approve" /\ ev.node = "B" /\ ev.result = "ok"
    /\ Len(chain["B"]) = i
    /\ SameBlocks(ev.pre.blocks, chain["A"])
    /\ \E x \in ev.pre.entry :
          LET tx == GetTransactionData(x.Payload).data IN
          /\ tx.from = "A" /\ tx.to = "B"
          /\ x.Payload.FromSignature = Sign(PrivKey("A"), tx)

\* A holds as its i-th block the i-th block of B
SharedAt(i) ==
    /\ Len(chain["A"]) >= i /\ Len(chain["B"]) >= i
    /\ chain["A"][i].Header.Index = chain["B"][i].Header.Index
    /\ chain["A"][i].Header.Hash = chain["B"][i].Header.Hash

\* C21: when A and B hold the same chain and each other's peer record, A has
\* proposed a transfer to B and B approves it, then, A being reached by B's
\* posts, A's chain comes to hold the approved block at the index and with
\* the hash it has on B.
C21_ApprovedBlockArrives ==
    \A i \in 2..MaxChain : ApprovedOnSharedChain(i) ~> SharedAt(i)

C21_Witness ==
    /\ ev.op = "receive" /\ ev.node = "A" /\ ev.result = "appended"
    /\ ev.pre.type = "transaction"
    /\ SharedAt(Len(chain["A"]))

\* no block is committed any more: the blocks of the run were made and no
\* post of a block is in flight
NoMoreBlocks == made.blocks = MaxBlocks /\ net = {}

\* C22 as stated: among nodes that share Genesis and reach each other, once
\* no block is committed any more and every node keeps running sync, all
\* nodes come to hold identical chains.
C22_AllChainsIdentical ==
    <>[](\A n, m \in Nodes : SameBlocks(chain[n], chain[m]))

\* C22: among nodes that share Genesis and reach each other, once no block
\* is committed any more and every node keeps running sync, a node whose
\* chain is shorter than another node's comes to hold that chain, and all
\* nodes come to hold chains of one length.
C22_ShorterChainCatchesUp ==
    /\ <>[](\A n, m \in Nodes : Len(chain[n]) = Len(chain[m]))
    /\ \A n, m \in Nodes :
          (NoMoreBlocks /\ Len(chain[n]) < Len(chain[m]))
              ~> SameBlocks(chain[n], chain[m])

C22_Witness ==
    /\ NoMoreBlocks
    /\ ev.op = "sync" /\ ev.result = "ok"
    /\ ev.pre.len < Len(chain[ev.node])
    /\ \A m \in Nodes : SameBlocks(chain[ev.node], chain[m])

\* a reject of the pending transfer returned success on node n
RejectSucceeded(n) == \E t \in Threads : run.th[n][t].result = "rejected"

\* C31: when approve and reject are called at the same time with the id of one
\* pending entry, they never both succeed: once the reject has returned
\* success, the chain holds no block made of that entry.
C31_ApproveOrReject ==
    RejectSucceeded(Decider) => BlocksOfEntry(Decider) = {}

\* no request is in progress on node n
Quiescent(n) == \A t \in Threads : run.th[n][t].pc \in {"idle", "done"}

\* C35: whenever no propose, approve or reject is in progress on a node, the
\* pending snapshot file holds exactly the entries of the pending pool in
\* memory, however the calls were interleaved.
C35_SnapshotIsPool ==
    Quiescent(Decider) => pendingFile[Decider] = pool[Decider]

\* the block log of node n read back holds the blocks of the chain in memory,
\* in the order of the chain
LogIsChain(n) ==
    /\ Len(blockLog[n]) = Len(chain[n])
    /\ \A i \in 1..Len(chain[n]) :
          LoadAll(blockLog[n])[i].Header.Hash = chain[n][i].Header.Hash

\* the results of an approve, a register and a receive that committed a block
CommitSuccess == {"ok", "registered", "appended"}

\* C32: when two operations that commit a block (approve, register, receive)
\* run at the same time on one node and both succeed, the block log holds
\* their blocks in the order in which the chain in memory holds them, and the
\* log read back is a valid chain.
C32_LogInChainOrder ==
    (\A t \in Threads : run.th[Committer][t].result \in CommitSuccess)
        => /\ LogIsChain(Committer)
           /\ ValidateChain(LoadAll(blockLog[Committer])) = "ok"

\* C33: when a sync runs at the same time as a receive, an approve or a
\* register on one node and no write fails, the block log equals the chain in
\* memory once all of them have returned.
C33_SyncKeepsLog ==
    (/\ \A t \in Threads : run.th[Committer][t].pc = "done"
     /\ \E t \in Threads : run.th[Committer][t].result = "synced"
     /\ \A t \in Threads : run.th[Committer][t].result # "persist_failed")
        => LogIsChain(Committer)

\* C34: when the write of the block log fails during an approve, a register
\* or a receive, the operation returns an error and its block is not on the
\* chain in memory; for an approve the entry is still pending.
C34_FailedWriteLeavesChain ==
    \A t \in Threads :
        run.th[Committer][t].result = "persist_failed"
            => /\ \A i \in 1..Len(chain[Committer]) :
                     chain[Committer][i].Header.Hash # run.th[Committer][t].block.Header.Hash
               /\ run.th[Committer][t].entry \subseteq pool[Committer]

\* C36: a receive and a sync leave the pending pools, the pending snapshot
\* files and the peer directories as they are: an appended add_node block
\* makes no peer record on the receiver and an appended transaction block
\* takes no entry off the receiver's pool.
C36_ReceiveAndSyncKeepPoolAndPeers ==
    ev.op \in {"receive", "sync"}
        => ev.touched \cap {"pool", "pendingFile", "peers"} = {}

\* a node has appended the received block of a transfer that is still pending
\* in its own pool
C36_Witness ==
    /\ ev.op = "receive" /\ ev.result = "appended" /\ ev.pre.type = "transaction"
    /\ \E x \in pool[ev.node] :
          x.Payload.Data = chain[ev.node][Len(chain[ev.node])].Payload.Data

\* C37: a node starts the gossip of a block it received only on the receive
\* that appends the block, and so at most once for one block: the flood of a
\* committed block ends after finitely many posts.
C37_GossipOncePerBlock ==
    /\ run.again = {}
    /\ (ev.op = "receive" /\ ev.bcast) => ev.result = "appended"
    /\ (ev.op = "receive" /\ ev.pre.held) => ~ev.bcast

\* a node is sent a block it has already appended and gossiped
C37_Witness ==
    /\ ev.op = "receive" /\ ev.result = "duplicate" /\ ~ev.bcast
    /\ \E k \in run.started : k[1] = ev.node /\ k[2] = Last(chain[ev.node]).Header.Hash

\* the entries of node n's pool that hold the transfer tx
EntriesOf(n, tx) == {x \in pool[n] : GetTransactionData(x.Payload).data = tx}

\* C38: a proposal whose to is another node that the local node knows is
\* forwarded to that node with the same transfer and the from_signature of
\* the stored entry; a node that is the to of a proposal stores it, with the
\* signature it came with, and forwards nothing; the propose succeeds in both
\* cases, before any forward is delivered.
C38_ForwardedToPayee ==
    ev.op = "propose" =>
        LET tx == ev.pre.tx
            n == ev.node
        IN  /\ ev.result = "ok"
            /\ EntriesOf(n, tx) # {}
            /\ (tx.to # n /\ tx.to \in DOMAIN peers[n] /\ tx.to \in Nodes)
                  => \E x \in EntriesOf(n, tx) :
                        /\ ev.posted = {ProposeMsg(tx.to, tx, x.Payload.FromSignature)}
                        /\ ev.posted \subseteq net
            /\ tx.to = n
                  => /\ ev.posted = {}
                     /\ ev.pre.supplied # NoSig
                           => \E x \in EntriesOf(n, tx) :
                                 x.Payload.FromSignature = ev.pre.supplied

\* the payee has stored a proposal that its proposer signed, holds and
\* forwarded
C38_Witness ==
    /\ ev.op = "propose" /\ ev.pre.tx.to = ev.node /\ ev.posted = {}
    /\ ev.pre.supplied = Sign(PrivKey(ev.pre.tx.from), ev.pre.tx)
    /\ \E x \in EntriesOf(ev.node, ev.pre.tx) : x.Payload.FromSignature = ev.pre.supplied
    /\ \E y \in EntriesOf(ev.pre.tx.from, ev.pre.tx) : y.Payload.FromSignature = ev.pre.supplied

\* no call of BroadcastBlock waits and no fan-out cycle is in progress
FanoutsDone == run.calls = {} /\ \A n \in Nodes : run.cycles[n] = {}

\* C40: when nodes gossip to each other at the same time while they serve
\* the posts of the others, no node waits for another in a cycle: serving a
\* post does not wait for the broadcast lock of the receiver, and with a
\* transport that answers every fan-out completes.
C40_CrossFanoutsComplete == <>[]FanoutsDone

\* A and B are both in a fan-out cycle with a post to the other not returned
C40_Witness ==
    /\ \E cy \in run.cycles["A"] : "B" \in cy.left
    /\ \E cy \in run.cycles["B"] : "A" \in cy.left

\* C39: every fan-out cycle ends and gives the broadcast lock back, also when
\* a peer accepts the connection and never answers, so that the broadcasts
\* that wait for the lock are not held up for ever.
C39_EveryFanoutEnds ==
    \A n \in Nodes : []<>(run.cycles[n] = {})

====
